---- MODULE Spec2Model ----
(***************************************************************************)
(* Order-and-inventory engine of procurement_supply (Django REST views).   *)
(* The relational state is modelled as functions; every view handler is    *)
(* one action in the sequential specifications (Spec, SpecCart), and a     *)
(* chain of one-query steps in the interleaved specification (SpecConc).   *)
(***************************************************************************)
EXTENDS Integers, FiniteSets, Sequences, TLC

(***************************************************************************)
(* Bounds of the model.                                                    *)
(***************************************************************************)
MaxQuantity == 2       \* initial on-hand quantity of every Stock
MaxOrders == 1         \* number of Order rows that may be created
MaxIssued == 3         \* number of requests begun in the interleaved specification

(***************************************************************************)
(* Rows present in the database from the start.                            *)
(***************************************************************************)
Purchasers == {"alice", "bob"}          \* users of type purchaser, each with a Purchaser row and a ShoppingCart
SupplierUsers == {"sup1", "sup2"}       \* users of type supplier, each owning one Supplier row
Users == Purchasers \cup SupplierUsers
NewPurchaserUsers == {"carol", "dave"}  \* users of type purchaser that have no Purchaser row yet
Stocks == {"s1", "s2"}
ChainStores == {"c1", "c2", "c3"}
Prices == {1, 2}                        \* values of Stock.price

\* User.type
UserType(u) == IF u \in Purchasers \cup NewPurchaserUsers THEN "purchaser" ELSE "supplier"

\* Stock.supplier (and Supplier.user, one to one)
StockSupplier(s) ==
    IF s \in {"s1", "s5", "s6"} THEN "sup1" ELSE IF s = "s2" THEN "sup2" ELSE "sup3"

\* ChainStore.purchaser
InitChainStorePurchaser == [c \in ChainStores |-> IF c = "c2" THEN "bob" ELSE "alice"]

\* on-hand quantities before any cart activity
InitQuantity == [s \in Stocks |-> IF s = "s1" THEN MaxQuantity ELSE 1]

(***************************************************************************)
(* JSON values of the "quantity" field of a request body: a type tag and   *)
(* twice the numeric value (so that 1.5 is n2 = 3).                        *)
(***************************************************************************)
IntV(n) == [t |-> "int", n2 |-> 2 * n]
Absent == [t |-> "absent", n2 |-> 0]
RequestQuantities ==
    {IntV(n) : n \in -1..(MaxQuantity + 1)}
      \cup {[t |-> "float", n2 |-> 3], [t |-> "str", n2 |-> 2], Absent}

\* request.data.get("quantity") as a Python truth value
Truthy(q) == q.t # "absent" /\ q.n2 # 0
\* request.data["quantity"] <= 0 raises TypeError for a string
CompareRaises(q) == q.t = "str"
\* request.data["quantity"] <= 0 or type(request.data["quantity"]) != int
InvalidQuantity(q) == q.n2 <= 0 \/ q.t # "int"
\* the integer carried by a valid quantity
Num(q) == q.n2 \div 2

(***************************************************************************)
(* Rows of CartPosition and OrderPosition; the unique constraints make     *)
(* (cart, stock) and (order, stock) keys, so a missing row is NoPosition.  *)
(***************************************************************************)
NoPosition == [quantity |-> 0, price |-> 0]
NoOrderPosition == [quantity |-> 0, price |-> 0, confirmed |-> FALSE, delivered |-> FALSE]
NoOrder == [purchaser |-> "none", chain_store |-> "none", status |-> "none"]
OrderIds == 1..MaxOrders

VARIABLES
    stockQuantity,     \* Stock.quantity
    stockPrice,        \* Stock.price
    order_status,      \* Supplier.order_status, by the supplier's user
    cart_positions,    \* CartPosition rows: purchaser -> stock -> row
    orders,            \* Order rows by id
    order_positions,   \* OrderPosition rows: order id -> stock -> row
    chain_store_purchaser,  \* ChainStore.purchaser, by the purchaser's user
    purchaser_rows,    \* the users that have a Purchaser row
    shopping_carts,    \* the users whose Purchaser has a ShoppingCart row
    resp,              \* the last completed request and its response
    reqs,              \* requests in flight (interleaved specification)
    issued             \* number of requests begun (interleaved specification)

vars == <<stockQuantity, stockPrice, order_status, cart_positions, orders, order_positions,
          chain_store_purchaser, purchaser_rows, shopping_carts, resp, reqs, issued>>
conc == <<reqs, issued>>
db == <<stockQuantity, stockPrice, order_status, cart_positions, orders, order_positions>>

Response(op, st) == [op |-> op, status |-> st]
\* ChainStore.purchaser.user
ChainStorePurchaser(c) == chain_store_purchaser[c]

\* a request in flight: its position in the handler and the handler's local variables
Idle == [pc |-> "idle", op |-> "none", user |-> "none", stock |-> "none", n |-> 0,
         snapQuantity |-> 0, snapPrice |-> 0, held |-> NoPosition,
         lines |-> [s \in Stocks |-> NoPosition], todo |-> {},
         order |-> 0, chain_store |-> "none", instance |-> NoOrder,
         positions |-> [s \in Stocks |-> NoOrderPosition],
         confirmed |-> "absent", delivered |-> "absent"]
RequestIds == {"r1", "r2"}
\* no request is in flight
Quiet == \A r \in RequestIds : reqs[r].pc = "idle"

Init ==
    /\ stockQuantity = InitQuantity
    /\ stockPrice = [s \in Stocks |-> 1]
    /\ order_status = [u \in SupplierUsers |-> TRUE]
    /\ cart_positions = [p \in Purchasers |-> [s \in Stocks |-> NoPosition]]
    /\ orders = [o \in OrderIds |-> NoOrder]
    /\ chain_store_purchaser = InitChainStorePurchaser
    /\ purchaser_rows = Purchasers
    /\ shopping_carts = Purchasers
    /\ order_positions = [o \in OrderIds |-> [s \in Stocks |-> NoOrderPosition]]
    /\ resp = Response("none", 0)
    /\ reqs = [r \in RequestIds |-> Idle]
    /\ issued = 0

(***************************************************************************)
(* Permissions (permissions.py).                                           *)
(***************************************************************************)
\* has_permission of the class get_permissions() returns for the action; it
\* runs before the handler, and a request that fails it gets status 403
HasPermission(u, op) ==
    CASE op \in {"add", "place"} -> UserType(u) = "purchaser"               \* IsPurchaser
      [] op \in {"update", "remove"} -> UserType(u) = "purchaser"          \* IsCartPositionOwner
      [] op = "clear" -> UserType(u) = "purchaser"                         \* IsPurchaserOwner
      [] op = "price" -> UserType(u) = "supplier"                          \* IsStockOwner
      [] op = "supplier" -> TRUE                                           \* IsOwner
      [] op \in {"cancel", "amend"} -> UserType(u) = "purchaser"           \* IsPurchaserOwner
      [] op = "confirm" -> UserType(u) = "supplier"                        \* IsStockReferencedOwner
      [] op = "chain_store" -> UserType(u) = "purchaser"                   \* IsPurchaserOwner
      [] op = "retrieve" -> TRUE                       \* IsAdmin | IsPurchaserOwner | IsOrderStockOwner
Operations == {"add", "update", "remove", "clear", "place", "price", "supplier"}

Forbidden(u, op) ==
    /\ ~HasPermission(u, op)
    /\ resp' = Response(op, 403)
    /\ UNCHANGED <<stockQuantity, stockPrice, order_status, cart_positions, orders, order_positions, reqs, issued, chain_store_purchaser, purchaser_rows, shopping_carts>>
\* IsCartPositionOwner.has_object_permission: request.user == obj.shopping_cart.purchaser.user
IsCartPositionOwner(u, p) == u = p
\* CartPositionViewSet.get_queryset: the positions get_object() can find
CartPositionVisible(u, p, s) ==
    IF UserType(u) = "purchaser" THEN u = p ELSE StockSupplier(s) = u

HasPosition(p, s) == cart_positions[p][s] # NoPosition

(***************************************************************************)
(* CartPositionViewSet.create                                              *)
(***************************************************************************)
\* a bug: the comparison is off by one
NotEnoughStockOffByOne(n, available) == n > available + 1
\* views.py:869  request.data["quantity"] > stock.quantity
NotEnoughStock(n, available) == n > available
\* a bug: the quantity of the new line is not taken from the stock
ReserveNothing(available, n) == available
\* views.py:875  stock.quantity - request.data["quantity"]
Reserve(available, n) == available - n
\* a bug: the price is left at the default of CartPosition.price
SnapshotPriceDefault(price) == 0
\* views.py:863  request.data["price"] = stock.price
SnapshotPrice(price) == price
\* the CartPosition row the serializer inserts
NewCartPosition(n, price) == [quantity |-> n, price |-> SnapshotPrice(price)]

\* status of the early returns of create, 0 when the request passes them all
CreateRejection(q, exists, accepting, available) ==
    IF ~Truthy(q) THEN 400
    ELSE IF exists THEN 400
    ELSE IF ~accepting THEN 400
    ELSE IF CompareRaises(q) THEN 500
    ELSE IF InvalidQuantity(q) THEN 400
    ELSE IF NotEnoughStock(Num(q), available) THEN 400
    ELSE 0

AddLine(u, s, q) ==
    LET rej == CreateRejection(q, HasPosition(u, s), order_status[StockSupplier(s)], stockQuantity[s])
    IN  /\ HasPermission(u, "add")
        /\ IF rej # 0
           THEN /\ resp' = Response("add", rej)
                /\ UNCHANGED db
           ELSE /\ stockQuantity' = [stockQuantity EXCEPT ![s] = Reserve(@, Num(q))]
                /\ cart_positions' = [cart_positions EXCEPT ![u][s] = NewCartPosition(Num(q), stockPrice[s])]
                /\ resp' = Response("add", 201)
                /\ UNCHANGED <<stockPrice, order_status, orders, order_positions>>
        /\ UNCHANGED <<conc, chain_store_purchaser, purchaser_rows, shopping_carts>>

(***************************************************************************)
(* CartPositionViewSet.update (PATCH, partial update)                      *)
(***************************************************************************)
\* views.py:918  request.data["quantity"] <= cart_position.quantity
NotIncrease(n, held) == n <= held
\* a bug: the whole held quantity is given back
GiveBackAll(available, held, n) == available + held
\* views.py:919  stock.quantity += cart_position.quantity - request.data["quantity"]
GiveBack(available, held, n) == available + (held - n)
\* a bug: the comparison is off by one
EnoughForIncreaseOffByOne(available, held, n) == available + 1 >= n - held
\* views.py:929  stock.quantity >= request.data["quantity"] - cart_position.quantity
EnoughForIncrease(available, held, n) == available >= n - held
\* views.py:932  stock.quantity -= request.data["quantity"] - cart_position.quantity
TakeMore(available, held, n) == available - (n - held)
\* views.py:934 and 942: the row written by super().update() through the
\* partial serializer; request.data["price"] is set on an increase only
UpdatedPosition(position, n, increase, price) ==
    IF increase
    THEN [position EXCEPT !.quantity = n, !.price = price]
    ELSE [position EXCEPT !.quantity = n]

\* PATCH bodies: a quantity, or a (truthy) shopping_cart, stock or price field as well
UpdateBodies ==
    {[quantity |-> q, otherFields |-> FALSE] : q \in RequestQuantities}
      \cup {[quantity |-> IntV(1), otherFields |-> TRUE]}

\* status of the early returns of update before get_object(), 0 when none applies
UpdateRejection(q, otherFields) ==
    IF otherFields THEN 400
    ELSE IF q.t = "absent" THEN 0
    ELSE IF CompareRaises(q) THEN 500
    ELSE IF InvalidQuantity(q) THEN 400
    ELSE 0

\* get_object(): 404 outside the queryset, 403 when the object permission fails
\* a bug: get_object() finds the position of any cart and no object permission is checked
GetPositionStatusExistsOnly(u, p, s, exists) == IF ~exists THEN 404 ELSE 0
GetPositionStatus(u, p, s, exists) ==
    IF ~(exists /\ CartPositionVisible(u, p, s)) THEN 404
    ELSE IF ~IsCartPositionOwner(u, p) THEN 403
    ELSE 0

UpdateLine(u, p, s, q, otherFields) ==
    LET rej == UpdateRejection(q, otherFields)
        got == GetPositionStatus(u, p, s, HasPosition(p, s))
        position == cart_positions[p][s]
        n == Num(q)
        same == UNCHANGED db
    IN  /\ HasPermission(u, "update")
        /\ UNCHANGED <<conc, chain_store_purchaser, purchaser_rows, shopping_carts>>
        /\ IF rej # 0
           THEN resp' = Response("update", rej) /\ same
           ELSE IF got # 0
           THEN resp' = Response("update", got) /\ same
           ELSE IF q.t = "absent"
           THEN resp' = Response("update", 200) /\ same
           ELSE IF NotIncrease(n, position.quantity)
           THEN /\ stockQuantity' = [stockQuantity EXCEPT ![s] = GiveBack(@, position.quantity, n)]
                /\ cart_positions' = [cart_positions EXCEPT ![p][s] =
                      UpdatedPosition(position, n, ~NotIncrease(n, position.quantity), stockPrice[s])]
                /\ resp' = Response("update", 200)
                /\ UNCHANGED <<stockPrice, order_status, orders, order_positions>>
           ELSE IF ~order_status[StockSupplier(s)]
           THEN resp' = Response("update", 400) /\ same
           ELSE IF EnoughForIncrease(stockQuantity[s], position.quantity, n)
           THEN /\ stockQuantity' = [stockQuantity EXCEPT ![s] = TakeMore(@, position.quantity, n)]
                /\ cart_positions' = [cart_positions EXCEPT ![p][s] =
                      UpdatedPosition(position, n, ~NotIncrease(n, position.quantity), stockPrice[s])]
                /\ resp' = Response("update", 200)
                /\ UNCHANGED <<stockPrice, order_status, orders, order_positions>>
           ELSE resp' = Response("update", 400) /\ same

(***************************************************************************)
(* CartPositionViewSet.destroy                                             *)
(***************************************************************************)
\* a bug: the held quantity is not given back
ReleaseForgotten(available, held) == available
\* views.py:891  stock.quantity += cart_position.quantity
Release(available, held) == available + held

RemoveLine(u, p, s) ==
    LET got == GetPositionStatus(u, p, s, HasPosition(p, s))
    IN  /\ HasPermission(u, "remove")
        /\ UNCHANGED <<conc, chain_store_purchaser, purchaser_rows, shopping_carts>>
        /\ IF got # 0
           THEN resp' = Response("remove", got) /\ UNCHANGED db
           ELSE /\ stockQuantity' = [stockQuantity EXCEPT ![s] = Release(@, cart_positions[p][s].quantity)]
                /\ cart_positions' = [cart_positions EXCEPT ![p][s] = NoPosition]
                /\ resp' = Response("remove", 204)
                /\ UNCHANGED <<stockPrice, order_status, orders, order_positions>>

(***************************************************************************)
(* ShoppingCartViewSet.destroy                                             *)
(***************************************************************************)
\* a bug: the held quantity is not given back
ClearReleaseForgotten(available, held) == available
\* views.py:786  stock.quantity += position.quantity
ClearRelease(available, held) == available + held

\* ShoppingCartViewSet.get_queryset, then IsPurchaserOwner.has_object_permission
GetCartStatus(u, p) ==
    IF UserType(u) = "purchaser" /\ u # p THEN 404
    ELSE IF u # p THEN 403
    ELSE 0

ClearCart(u, p) ==
    LET got == GetCartStatus(u, p)
    IN  /\ HasPermission(u, "clear")
        /\ UNCHANGED <<conc, chain_store_purchaser, purchaser_rows, shopping_carts>>
        /\ IF got # 0
           THEN resp' = Response("clear", got) /\ UNCHANGED db
           ELSE /\ stockQuantity' = [s \in Stocks |-> ClearRelease(stockQuantity[s], cart_positions[p][s].quantity)]
                /\ cart_positions' = [cart_positions EXCEPT ![p] = [s \in Stocks |-> NoPosition]]
                /\ resp' = Response("clear", 200)
                /\ UNCHANGED <<stockPrice, order_status, orders, order_positions>>

(***************************************************************************)
(* StockViewSet.update with a body {"price": x}, and SupplierViewSet.update *)
(* with a body {"order_status": b}                                         *)
(***************************************************************************)
\* the supplier's queryset of StockViewSet.get_queryset, and IsStockOwner.has_object_permission
IsStockOwner(u, s) == u = StockSupplier(s)

\* a bug: a new price of the stock is copied into the order positions of the stock
StockUpdatePriceCascade(u, s, price) ==
    /\ HasPermission(u, "price")
    /\ IsStockOwner(u, s)
    /\ UNCHANGED <<conc, chain_store_purchaser, purchaser_rows, shopping_carts>>
    /\ stockPrice' = [stockPrice EXCEPT ![s] = price]
    /\ order_positions' = [o \in OrderIds |->
           IF order_positions[o][s] # NoOrderPosition
           THEN [order_positions[o] EXCEPT ![s].price = price]
           ELSE order_positions[o]]
    /\ resp' = Response("price", 200)
    /\ UNCHANGED <<stockQuantity, order_status, cart_positions, orders>>
StockUpdatePrice(u, s, price) ==
    /\ HasPermission(u, "price")
    /\ UNCHANGED <<conc, chain_store_purchaser, purchaser_rows, shopping_carts>>
    /\ IF ~IsStockOwner(u, s)
       THEN /\ resp' = Response("price", 404)
            /\ UNCHANGED db
       ELSE /\ stockPrice' = [stockPrice EXCEPT ![s] = price]
            /\ resp' = Response("price", 200)
            /\ UNCHANGED <<stockQuantity, order_status, cart_positions, orders, order_positions>>

\* SupplierViewSet.get_queryset, then IsOwner.has_object_permission: request.user == obj.user
SupplierUpdate(u, sup, accepting) ==
    /\ HasPermission(u, "supplier")
    /\ UNCHANGED <<conc, chain_store_purchaser, purchaser_rows, shopping_carts>>
    /\ IF u # sup
       THEN /\ resp' = Response("supplier", IF UserType(u) = "supplier" THEN 404 ELSE 403)
            /\ UNCHANGED db
       ELSE /\ order_status' = [order_status EXCEPT ![sup] = accepting]
            /\ resp' = Response("supplier", 200)
            /\ UNCHANGED <<stockQuantity, stockPrice, cart_positions, orders, order_positions>>

(***************************************************************************)
(* OrderViewSet.create                                                     *)
(***************************************************************************)
CartStocks(p) == {s \in Stocks : HasPosition(p, s)}
\* a bug: the price is left at the default of OrderPosition.price
NewOrderPositionDefaultPrice(position) ==
    [quantity |-> position.quantity, price |-> 0, confirmed |-> FALSE, delivered |-> FALSE]
\* views.py:1122  OrderPosition.objects.create(order, stock, quantity, price)
NewOrderPosition(position) ==
    [quantity |-> position.quantity, price |-> position.price, confirmed |-> FALSE, delivered |-> FALSE]
\* a bug: the order is created with the other status
NewOrderCancelled(p, c) == [purchaser |-> p, chain_store |-> c, status |-> "cancelled"]
\* models.py:314  status default
NewOrder(p, c) == [purchaser |-> p, chain_store |-> c, status |-> "saved"]
FreeOrderIds == {o \in OrderIds : orders[o] = NoOrder}

\* a bug: the owner of the chain store is not compared with the purchaser
PlaceRejectionAnyStore(u, c, lines) ==
    IF lines = 0 THEN 400 ELSE 0
\* status of the early returns of create, 0 when the request passes them all
PlaceRejection(u, c, lines) ==
    IF lines = 0 THEN 400
    ELSE IF ChainStorePurchaser(c) # u THEN 400
    ELSE 0

PlaceOrder(u, c) ==
    LET rej == PlaceRejection(u, c, Cardinality(CartStocks(u)))
    IN  /\ HasPermission(u, "place")
        /\ UNCHANGED <<conc, chain_store_purchaser, purchaser_rows, shopping_carts>>
        /\ IF rej # 0
           THEN resp' = Response("place", rej) /\ UNCHANGED db
           ELSE /\ FreeOrderIds # {}
                /\ LET o == CHOOSE x \in FreeOrderIds : \A y \in FreeOrderIds : x <= y
                   IN  /\ orders' = [orders EXCEPT ![o] = NewOrder(u, c)]
                       /\ order_positions' = [order_positions EXCEPT ![o] =
                             [s \in Stocks |-> IF HasPosition(u, s)
                                               THEN NewOrderPosition(cart_positions[u][s])
                                               ELSE NoOrderPosition]]
                       /\ resp' = Response("place", 201)
                /\ cart_positions' = [cart_positions EXCEPT ![u] = [s \in Stocks |-> NoPosition]]
                /\ UNCHANGED <<stockQuantity, stockPrice, order_status>>

CartNext ==
    \/ \E u \in Users, s \in Stocks, q \in RequestQuantities : AddLine(u, s, q)
    \/ \E u \in Users, p \in Purchasers, s \in Stocks, b \in UpdateBodies :
          UpdateLine(u, p, s, b.quantity, b.otherFields)
    \/ \E u \in Users, p \in Purchasers, s \in Stocks : RemoveLine(u, p, s)
    \/ \E u \in Users, p \in Purchasers : ClearCart(u, p)
    \/ \E u \in Users, s \in Stocks, price \in Prices : StockUpdatePrice(u, s, price)
    \/ \E u \in Users, sup \in SupplierUsers, accepting \in BOOLEAN : SupplierUpdate(u, sup, accepting)
    \/ \E u \in Users, op \in Operations : Forbidden(u, op)

Next ==
    \/ CartNext
    \/ \E u \in Users, c \in ChainStores : PlaceOrder(u, c)

\* add line, update line, remove line and clear cart only (no order is placed)
SpecCart == Init /\ [][CartNext]_vars

Spec == Init /\ [][Next]_vars

(***************************************************************************)
(* OrderViewSet.destroy (cancel order), OrderViewSet.update (amend order), *)
(* OrderPositionViewSet.update (confirm / deliver a position) and the      *)
(* change form of OrderPositionAdmin on the admin site.                    *)
(***************************************************************************)
\* OrderViewSet.get_queryset, purchaser branch: the orders get_object() can find
\* a bug: the queryset of the purchaser is not filtered
OrderVisibleAny(u, o) == orders[o] # NoOrder
OrderVisible(u, o) == orders[o] # NoOrder /\ orders[o].purchaser = u
HasOrderPosition(o, s) == order_positions[o][s] # NoOrderPosition
\* views.py:1184 / 1213  position.confirmed or position.delivered, for some position
AnyMoved(positions) ==
    \E s \in Stocks : positions[s] # NoOrderPosition /\ (positions[s].confirmed \/ positions[s].delivered)

\* a bug: an order that is already cancelled is cancelled again
CancelRejectionNoStatus(orderStatus, positions) ==
    IF AnyMoved(positions) THEN 400 ELSE 0
\* status of the early returns of destroy, 0 when the request passes them all
CancelRejection(orderStatus, positions) ==
    IF orderStatus = "cancelled" THEN 400
    ELSE IF AnyMoved(positions) THEN 400
    ELSE 0

\* a bug: the quantity is not given back
RestockForgotten(available, quantity) == available
\* views.py:1197  stock.quantity += position.quantity
Restock(available, quantity) == available + quantity

CancelOrder(u, o) ==
    /\ HasPermission(u, "cancel")
    /\ UNCHANGED <<conc, chain_store_purchaser, purchaser_rows, shopping_carts>>
    /\ IF ~OrderVisible(u, o)
       THEN resp' = Response("cancel", 404) /\ UNCHANGED db
       ELSE LET rej == CancelRejection(orders[o].status, order_positions[o])
            IN  IF rej # 0
                THEN resp' = Response("cancel", rej) /\ UNCHANGED db
                ELSE /\ orders' = [orders EXCEPT ![o].status = "cancelled"]
                     /\ stockQuantity' = [s \in Stocks |->
                            IF HasOrderPosition(o, s)
                            THEN Restock(stockQuantity[s], order_positions[o][s].quantity)
                            ELSE stockQuantity[s]]
                     /\ resp' = Response("cancel", 200)
                     /\ UNCHANGED <<stockPrice, order_status, cart_positions, order_positions>>

\* the body of a PATCH on an order: chain_store (or "absent") and whether the key purchaser is present
AmendBodies == [chain_store : ChainStores \cup {"absent"}, purchaser : BOOLEAN]

\* a bug: an order with a confirmed or delivered position is amended like any other
AmendRejectionNoFlags(u, orderStatus, positions, body) ==
    IF orderStatus = "cancelled" THEN 400
    ELSE IF body.purchaser THEN 403
    ELSE IF body.chain_store # "absent" /\ ChainStorePurchaser(body.chain_store) # u THEN 400
    ELSE 0
\* a bug: a cancelled order is amended like a saved one
AmendRejectionNoStatus(u, orderStatus, positions, body) ==
    IF AnyMoved(positions) THEN 400
    ELSE IF body.purchaser THEN 403
    ELSE IF body.chain_store # "absent" /\ ChainStorePurchaser(body.chain_store) # u THEN 400
    ELSE 0
\* status of the early returns of update, 0 when the request passes them all
AmendRejection(u, orderStatus, positions, body) ==
    IF orderStatus = "cancelled" THEN 400
    ELSE IF AnyMoved(positions) THEN 400
    ELSE IF body.purchaser THEN 403
    ELSE IF body.chain_store # "absent" /\ ChainStorePurchaser(body.chain_store) # u THEN 400
    ELSE 0

\* perform_update with OrderCreateSerializer: date and status are read only
AmendedOrder(order, body) ==
    IF body.chain_store = "absent" THEN order ELSE [order EXCEPT !.chain_store = body.chain_store]

AmendOrder(u, o, body) ==
    /\ HasPermission(u, "amend")
    /\ UNCHANGED <<conc, chain_store_purchaser, purchaser_rows, shopping_carts>>
    /\ IF ~OrderVisible(u, o)
       THEN resp' = Response("amend", 404) /\ UNCHANGED db
       ELSE LET rej == AmendRejection(u, orders[o].status, order_positions[o], body)
            IN  IF rej # 0
                THEN resp' = Response("amend", rej) /\ UNCHANGED db
                ELSE /\ orders' = [orders EXCEPT ![o] = AmendedOrder(orders[o], body)]
                     /\ resp' = Response("amend", 200)
                     /\ UNCHANGED <<stockQuantity, stockPrice, order_status, cart_positions, order_positions>>

\* a value of the key confirmed or delivered in the body of a PATCH on an order position
FlagValues == {"absent", "true", "false", "invalid"}
\* a bug: the queryset of the supplier is not filtered
OrderPositionVisibleAny(u, o, s) == HasOrderPosition(o, s)
\* OrderPositionViewSet.get_queryset, supplier branch
OrderPositionVisible(u, o, s) == HasOrderPosition(o, s) /\ StockSupplier(s) = u

\* a bug: a request that asks false for a flag that is already true is let through
FlagRejectedInvalidOnly(value, current) == value = "invalid"
\* views.py:1319-1336 and 1338-1355: the early return for one flag
FlagRejected(value, current) == value = "invalid" \/ (value = "false" /\ current)
\* views.py:1320-1322 and 1339-1341: the flag after the request
FlagAfter(value, current) == IF value = "true" THEN TRUE ELSE current

\* a bug: a position of a cancelled order is confirmed like any other
ConfirmRejectionNoStatus(orderStatus, position, confirmed, delivered) ==
    IF FlagRejected(confirmed, position.confirmed) THEN 400
    ELSE IF FlagRejected(delivered, position.delivered) THEN 400
    ELSE 0
\* status of the early returns of update after get_object(), 0 when the request passes them all
ConfirmRejection(orderStatus, position, confirmed, delivered) ==
    IF orderStatus = "cancelled" THEN 400
    ELSE IF FlagRejected(confirmed, position.confirmed) THEN 400
    ELSE IF FlagRejected(delivered, position.delivered) THEN 400
    ELSE 0

\* a bug: the flag that the body does not set true is written with its default
ConfirmedPositionFromDefaults(position, confirmed, delivered) ==
    [position EXCEPT !.confirmed = FlagAfter(confirmed, FALSE),
                     !.delivered = FlagAfter(delivered, FALSE)]
\* a bug: saving the flags also resets the quantity of the position
ConfirmedPositionNoQuantity(position, confirmed, delivered) ==
    [position EXCEPT !.confirmed = FlagAfter(confirmed, position.confirmed),
                     !.delivered = FlagAfter(delivered, position.delivered),
                     !.quantity = 0]
\* views.py:1322, 1341, 1356  the instance that instance.save() writes
ConfirmedPosition(position, confirmed, delivered) ==
    [position EXCEPT !.confirmed = FlagAfter(confirmed, position.confirmed),
                     !.delivered = FlagAfter(delivered, position.delivered)]

OrderPositionUpdate(u, o, s, confirmed, delivered) ==
    /\ HasPermission(u, "confirm")
    /\ UNCHANGED <<conc, chain_store_purchaser, purchaser_rows, shopping_carts>>
    /\ IF confirmed = "absent" /\ delivered = "absent"
       THEN resp' = Response("confirm", 400) /\ UNCHANGED db
       ELSE IF ~OrderPositionVisible(u, o, s)
       THEN resp' = Response("confirm", 404) /\ UNCHANGED db
       ELSE LET rej == ConfirmRejection(orders[o].status, order_positions[o][s], confirmed, delivered)
            IN  IF rej # 0
                THEN resp' = Response("confirm", rej) /\ UNCHANGED db
                ELSE /\ order_positions' = [order_positions EXCEPT ![o][s] =
                            ConfirmedPosition(order_positions[o][s], confirmed, delivered)]
                     /\ resp' = Response("confirm", 200)
                     /\ UNCHANGED <<stockQuantity, stockPrice, order_status, cart_positions, orders>>

\* users of the admin site: the superuser, and suppliers given the staff status
Superusers == {"root"}
StaffUsers == SupplierUsers \cup Superusers
\* OrderPositionAdmin.get_queryset
AdminOrderPositionVisible(u, o, s) ==
    /\ HasOrderPosition(o, s)
    /\ u \in Superusers \/ (orders[o].status = "saved" /\ StockSupplier(s) = u)

\* the change form of OrderPositionAdmin: confirmed and delivered are its only editable
\* fields, and the form saves the values of both checkboxes
OrderPositionAdminChange(u, o, s, confirmed, delivered) ==
    /\ UNCHANGED <<conc, chain_store_purchaser, purchaser_rows, shopping_carts>>
    /\ resp' = Response("admin", 302)
    /\ IF ~AdminOrderPositionVisible(u, o, s)
       THEN UNCHANGED db
       ELSE /\ order_positions' = [order_positions EXCEPT ![o][s].confirmed = confirmed,
                                                          ![o][s].delivered = delivered]
            /\ UNCHANGED <<stockQuantity, stockPrice, order_status, cart_positions, orders>>

(***************************************************************************)
(* ChainStoreViewSet.update                                                *)
(***************************************************************************)
\* a bug: the queryset of the purchaser is not filtered
ChainStoreVisibleAll(u, c) == TRUE
\* ChainStoreViewSet.get_queryset, purchaser branch
ChainStoreVisible(u, c) == ChainStorePurchaser(c) = u

\* views.py:1011  request.data["purchaser"] is overwritten with the Purchaser of request.user,
\* then super().update() writes it with the other fields of the body
ChainStoreUpdate(u, c) ==
    /\ HasPermission(u, "chain_store")
    /\ UNCHANGED <<conc, db, purchaser_rows, shopping_carts>>
    /\ IF ~ChainStoreVisible(u, c)
       THEN resp' = Response("chain_store", 404) /\ UNCHANGED chain_store_purchaser
       ELSE /\ chain_store_purchaser' = [chain_store_purchaser EXCEPT ![c] = u]
            /\ resp' = Response("chain_store", 200)

(***************************************************************************)
(* The derived fields of Order (models.py) and OrderViewSet.retrieve       *)
(***************************************************************************)
\* self.order_positions.all(): the stocks of the rows of an order
Rows(positions) == {s \in DOMAIN positions : positions[s] # NoOrderPosition}

RECURSIVE CheckFlag(_, _, _)
\* models.py:324-327 and 342-345: the loop returns False at the first position without the flag
CheckFlag(positions, todo, flag) ==
    IF todo = {} THEN TRUE
    ELSE LET s == CHOOSE x \in todo : TRUE
         IN  IF ~positions[s][flag] THEN FALSE ELSE CheckFlag(positions, todo \ {s}, flag)

\* a bug: the loop returns True at the first position with the flag
check_confirmed_any(positions) == Rows(positions) = {} \/ \E s \in Rows(positions) : positions[s].confirmed
check_confirmed(positions) == CheckFlag(positions, Rows(positions), "confirmed")
check_delivered(positions) == CheckFlag(positions, Rows(positions), "delivered")

RECURSIVE QuantityLoop(_, _)
QuantityLoop(positions, todo) ==
    IF todo = {} THEN 0
    ELSE LET s == CHOOSE x \in todo : TRUE
         IN  positions[s].quantity + QuantityLoop(positions, todo \ {s})
\* models.py:360
calculate_total_quantity(positions) == QuantityLoop(positions, Rows(positions))

\* settings.COMBINED_ORDER_MULTIPLIER, in hundredths
COMBINED_ORDER_MULTIPLIER == 110

RECURSIVE SurchargePerSupplier(_, _)
\* a bug: the multiplier is applied once for every supplier after the first
SurchargePerSupplier(amount, suppliers) ==
    IF Cardinality(suppliers) <= 1 THEN 100 * amount
    ELSE (COMBINED_ORDER_MULTIPLIER * SurchargePerSupplier(amount, suppliers \ {CHOOSE x \in suppliers : TRUE})) \div 100
\* models.py:382-384, in hundredths of the currency unit
Surcharge(amount, suppliers) ==
    IF Cardinality(suppliers) > 1 THEN COMBINED_ORDER_MULTIPLIER * amount ELSE 100 * amount

RECURSIVE AmountLoop(_, _, _)
\* models.py:377-381: amount and the set of suppliers after the loop
AmountLoop(positions, todo, acc) ==
    IF todo = {} THEN acc
    ELSE LET s == CHOOSE x \in todo : TRUE
         IN  AmountLoop(positions, todo \ {s},
                        [amount |-> acc.amount + positions[s].quantity * positions[s].price,
                         suppliers |-> acc.suppliers \cup {StockSupplier(s)}])
calculate_total_amount(positions) ==
    LET acc == AmountLoop(positions, Rows(positions), [amount |-> 0, suppliers |-> {}])
    IN  Surcharge(acc.amount, acc.suppliers)

\* OrderViewSet.get_queryset: the orders get_object() can find
OrderReadable(u, o) ==
    /\ orders[o] # NoOrder
    /\ IF UserType(u) = "purchaser"
       THEN orders[o].purchaser = u
       ELSE \E s \in Rows(order_positions[o]) : StockSupplier(s) = u

\* the fields of OrderSerializer that are computed from the order positions
OrderData(o) ==
    [status |-> orders[o].status, chain_store |-> orders[o].chain_store,
     confirmed |-> check_confirmed(order_positions[o]),
     delivered |-> check_delivered(order_positions[o]),
     total_quantity |-> calculate_total_quantity(order_positions[o]),
     total_amount |-> calculate_total_amount(order_positions[o])]

\* OrderViewSet.retrieve (GET /orders/<id>/)
RetrieveOrder(u, o) ==
    /\ HasPermission(u, "retrieve")
    /\ UNCHANGED <<conc, db, chain_store_purchaser, purchaser_rows, shopping_carts>>
    /\ IF ~OrderReadable(u, o)
       THEN resp' = Response("retrieve", 404)
       ELSE resp' = [op |-> "retrieve", status |-> 200, order |-> o, data |-> OrderData(o)]

OrderOperations == {"add", "place", "cancel", "amend", "confirm", "chain_store"}

\* the requests of the REST interface on orders, with add line to fill the carts
OrderApiNext ==
    \/ \E u \in Users, s \in Stocks, q \in RequestQuantities : AddLine(u, s, q)
    \/ \E u \in Users, c \in ChainStores : PlaceOrder(u, c)
    \/ \E u \in Users, o \in OrderIds : CancelOrder(u, o)
    \/ \E u \in Users, o \in OrderIds, body \in AmendBodies : AmendOrder(u, o, body)
    \/ \E u \in Users, o \in OrderIds, s \in Stocks, confirmed \in FlagValues, delivered \in FlagValues :
          OrderPositionUpdate(u, o, s, confirmed, delivered)
    \/ \E u \in Users, c \in ChainStores : ChainStoreUpdate(u, c)
    \/ \E u \in Users, o \in OrderIds : RetrieveOrder(u, o)
    \/ \E u \in Users, op \in OrderOperations : Forbidden(u, op)

OrderNext ==
    \/ OrderApiNext
    \/ \E u \in StaffUsers, o \in OrderIds, s \in Stocks, confirmed \in BOOLEAN, delivered \in BOOLEAN :
          OrderPositionAdminChange(u, o, s, confirmed, delivered)

\* place, amend, cancel and confirm / deliver through the REST interface
SpecOrderApi == Init /\ [][OrderApiNext]_vars

\* the REST interface and the admin site
SpecOrder == Init /\ [][OrderNext]_vars

(***************************************************************************)
(* Interleaved requests.  No handler opens a transaction or locks a row,   *)
(* so a request is a chain of separate queries; each step below is one     *)
(* query (with the local computation that follows it), and steps of two    *)
(* requests interleave freely.  Model.save() writes every column of the    *)
(* instance the handler read earlier.                                      *)
(***************************************************************************)
ValidQuantities == 1..MaxQuantity
CartOperations == {"add", "update", "remove", "clear"}

FirstStep(op) ==
    CASE op = "add" -> "add_exists"
      [] op = "update" -> "upd_get"
      [] op = "remove" -> "rem_get"
      [] op = "clear" -> "clr_get"

\* a purchaser sends a request on the own cart
Begin(r, op, u, s, n) ==
    /\ reqs[r].pc = "idle"
    /\ issued < MaxIssued
    /\ HasPermission(u, op)
    /\ reqs' = [reqs EXCEPT ![r] = [Idle EXCEPT !.pc = FirstStep(op), !.op = op, !.user = u,
                                                 !.stock = IF op = "clear" THEN "none" ELSE s,
                                                 !.n = IF op \in {"add", "update"} THEN n ELSE 0]]
    /\ issued' = issued + 1
    /\ UNCHANGED <<stockQuantity, stockPrice, order_status, cart_positions, orders, order_positions, resp, chain_store_purchaser, purchaser_rows, shopping_carts>>

\* the handler returns a response
Finish(r, st) ==
    /\ reqs' = [reqs EXCEPT ![r] = Idle]
    /\ resp' = Response(reqs[r].op, st)
Goto(r, pc) == reqs' = [reqs EXCEPT ![r].pc = pc] /\ UNCHANGED resp
\* stock = Stock.objects.get(id=...)
ReadStock(r, s, pc) ==
    /\ reqs' = [reqs EXCEPT ![r].pc = pc, ![r].stock = s,
                            ![r].snapQuantity = stockQuantity[s], ![r].snapPrice = stockPrice[s]]
    /\ UNCHANGED resp
\* stock.save() after stock.quantity was set to quantity
SaveStock(r, quantity) ==
    /\ stockQuantity' = [stockQuantity EXCEPT ![reqs[r].stock] = quantity]
    /\ stockPrice' = [stockPrice EXCEPT ![reqs[r].stock] = reqs[r].snapPrice]
unchangedStock == UNCHANGED <<stockQuantity, stockPrice>>
unchangedRest == UNCHANGED <<order_status, orders, order_positions, issued, chain_store_purchaser, purchaser_rows, shopping_carts>>

\* views.py:849  CartPosition.objects.filter(stock, shopping_cart).exists()
AddExists(r) ==
    LET q == reqs[r] IN
    /\ q.pc = "add_exists"
    /\ IF HasPosition(q.user, q.stock) THEN Finish(r, 400) ELSE Goto(r, "add_read")
    /\ UNCHANGED cart_positions /\ unchangedStock /\ unchangedRest

\* views.py:857
AddRead(r) ==
    /\ reqs[r].pc = "add_read"
    /\ ReadStock(r, reqs[r].stock, "add_supplier")
    /\ UNCHANGED cart_positions /\ unchangedStock /\ unchangedRest

\* views.py:858-873  stock.supplier is fetched, then the checks on the values read
AddSupplier(r) ==
    LET q == reqs[r] IN
    /\ q.pc = "add_supplier"
    /\ IF ~order_status[StockSupplier(q.stock)] \/ NotEnoughStock(q.n, q.snapQuantity)
       THEN Finish(r, 400)
       ELSE Goto(r, "add_save")
    /\ UNCHANGED cart_positions /\ unchangedStock /\ unchangedRest

\* views.py:875-876
AddSave(r) ==
    LET q == reqs[r] IN
    /\ q.pc = "add_save"
    /\ SaveStock(r, Reserve(q.snapQuantity, q.n))
    /\ Goto(r, "add_insert")
    /\ UNCHANGED cart_positions /\ unchangedRest

\* views.py:877  super().create(): the row is inserted unless the unique
\* pair (shopping_cart, stock) exists by now
AddInsert(r) ==
    LET q == reqs[r] IN
    /\ q.pc = "add_insert"
    /\ IF HasPosition(q.user, q.stock)
       THEN Finish(r, 400) /\ UNCHANGED cart_positions
       ELSE /\ cart_positions' = [cart_positions EXCEPT ![q.user][q.stock] = NewCartPosition(q.n, q.snapPrice)]
            /\ Finish(r, 201)
    /\ unchangedStock /\ unchangedRest

\* views.py:915  cart_position = self.get_object()
UpdGet(r) ==
    LET q == reqs[r]
        got == GetPositionStatus(q.user, q.user, q.stock, HasPosition(q.user, q.stock))
    IN
    /\ q.pc = "upd_get"
    /\ IF got # 0
       THEN Finish(r, got)
       ELSE reqs' = [reqs EXCEPT ![r].pc = "upd_read", ![r].held = cart_positions[q.user][q.stock]]
            /\ UNCHANGED resp
    /\ UNCHANGED cart_positions /\ unchangedStock /\ unchangedRest

\* views.py:916
UpdRead(r) ==
    /\ reqs[r].pc = "upd_read"
    /\ ReadStock(r, reqs[r].stock,
                 IF NotIncrease(reqs[r].n, reqs[r].held.quantity) THEN "upd_save" ELSE "upd_supplier")
    /\ UNCHANGED cart_positions /\ unchangedStock /\ unchangedRest

\* views.py:922-941
UpdSupplier(r) ==
    LET q == reqs[r] IN
    /\ q.pc = "upd_supplier"
    /\ IF order_status[StockSupplier(q.stock)] /\ EnoughForIncrease(q.snapQuantity, q.held.quantity, q.n)
       THEN Goto(r, "upd_save")
       ELSE Finish(r, 400)
    /\ UNCHANGED cart_positions /\ unchangedStock /\ unchangedRest

\* views.py:919-920 and 932-933
UpdSave(r) ==
    LET q == reqs[r] IN
    /\ q.pc = "upd_save"
    /\ SaveStock(r, IF NotIncrease(q.n, q.held.quantity)
                    THEN GiveBack(q.snapQuantity, q.held.quantity, q.n)
                    ELSE TakeMore(q.snapQuantity, q.held.quantity, q.n))
    /\ Goto(r, "upd_write")
    /\ UNCHANGED cart_positions /\ unchangedRest

\* views.py:942  super().update(): get_object() again, then the row is written
UpdWrite(r) ==
    LET q == reqs[r] IN
    /\ q.pc = "upd_write"
    /\ IF ~HasPosition(q.user, q.stock)
       THEN Finish(r, 404) /\ UNCHANGED cart_positions
       ELSE /\ cart_positions' = [cart_positions EXCEPT ![q.user][q.stock] =
                 UpdatedPosition(@, q.n, ~NotIncrease(q.n, q.held.quantity), q.snapPrice)]
            /\ Finish(r, 200)
    /\ unchangedStock /\ unchangedRest

\* views.py:889
RemGet(r) ==
    LET q == reqs[r]
        got == GetPositionStatus(q.user, q.user, q.stock, HasPosition(q.user, q.stock))
    IN
    /\ q.pc = "rem_get"
    /\ IF got # 0
       THEN Finish(r, got)
       ELSE reqs' = [reqs EXCEPT ![r].pc = "rem_read", ![r].held = cart_positions[q.user][q.stock]]
            /\ UNCHANGED resp
    /\ UNCHANGED cart_positions /\ unchangedStock /\ unchangedRest

\* views.py:890
RemRead(r) ==
    /\ reqs[r].pc = "rem_read"
    /\ ReadStock(r, reqs[r].stock, "rem_save")
    /\ UNCHANGED cart_positions /\ unchangedStock /\ unchangedRest

\* views.py:891-892
RemSave(r) ==
    LET q == reqs[r] IN
    /\ q.pc = "rem_save"
    /\ SaveStock(r, Release(q.snapQuantity, q.held.quantity))
    /\ Goto(r, "rem_delete")
    /\ UNCHANGED cart_positions /\ unchangedRest

\* views.py:893  super().destroy(): get_object() again, then the row is deleted
RemDelete(r) ==
    LET q == reqs[r] IN
    /\ q.pc = "rem_delete"
    /\ IF ~HasPosition(q.user, q.stock)
       THEN Finish(r, 404) /\ UNCHANGED cart_positions
       ELSE /\ cart_positions' = [cart_positions EXCEPT ![q.user][q.stock] = NoPosition]
            /\ Finish(r, 204)
    /\ unchangedStock /\ unchangedRest

\* views.py:783-784  the cart is fetched and the queryset of its positions is evaluated
ClrGet(r) ==
    LET q == reqs[r]
        lines == cart_positions[q.user]
        todo == {s \in Stocks : lines[s] # NoPosition}
    IN
    /\ q.pc = "clr_get"
    /\ reqs' = [reqs EXCEPT ![r].pc = IF todo = {} THEN "clr_delete" ELSE "clr_read",
                            ![r].lines = lines, ![r].todo = todo]
    /\ UNCHANGED <<resp, cart_positions>> /\ unchangedStock /\ unchangedRest

\* views.py:785  for the next position of the loop
ClrRead(r) ==
    /\ reqs[r].pc = "clr_read"
    /\ \E s \in reqs[r].todo : ReadStock(r, s, "clr_save")
    /\ UNCHANGED cart_positions /\ unchangedStock /\ unchangedRest

\* views.py:786-787
ClrSave(r) ==
    LET q == reqs[r]
        left == q.todo \ {q.stock}
    IN
    /\ q.pc = "clr_save"
    /\ SaveStock(r, ClearRelease(q.snapQuantity, q.lines[q.stock].quantity))
    /\ reqs' = [reqs EXCEPT ![r].pc = IF left = {} THEN "clr_delete" ELSE "clr_read", ![r].todo = left]
    /\ UNCHANGED <<resp, cart_positions>> /\ unchangedRest

\* views.py:788  cart_positions.delete() deletes the rows the filter matches now
ClrDelete(r) ==
    LET q == reqs[r] IN
    /\ q.pc = "clr_delete"
    /\ cart_positions' = [cart_positions EXCEPT ![q.user] = [s \in Stocks |-> NoPosition]]
    /\ Finish(r, 200)
    /\ unchangedStock /\ unchangedRest

ConcNext ==
    \/ \E r \in RequestIds, op \in CartOperations, u \in Purchasers, s \in Stocks, n \in ValidQuantities :
          Begin(r, op, u, s, n)
    \/ \E r \in RequestIds : AddExists(r)
    \/ \E r \in RequestIds : AddRead(r)
    \/ \E r \in RequestIds : AddSupplier(r)
    \/ \E r \in RequestIds : AddSave(r)
    \/ \E r \in RequestIds : AddInsert(r)
    \/ \E r \in RequestIds : UpdGet(r)
    \/ \E r \in RequestIds : UpdRead(r)
    \/ \E r \in RequestIds : UpdSupplier(r)
    \/ \E r \in RequestIds : UpdSave(r)
    \/ \E r \in RequestIds : UpdWrite(r)
    \/ \E r \in RequestIds : RemGet(r)
    \/ \E r \in RequestIds : RemRead(r)
    \/ \E r \in RequestIds : RemSave(r)
    \/ \E r \in RequestIds : RemDelete(r)
    \/ \E r \in RequestIds : ClrGet(r)
    \/ \E r \in RequestIds : ClrRead(r)
    \/ \E r \in RequestIds : ClrSave(r)
    \/ \E r \in RequestIds : ClrDelete(r)

SpecConc == Init /\ [][ConcNext]_vars

(***************************************************************************)
(* Interleaved requests on orders: OrderViewSet.create, OrderViewSet.      *)
(* destroy and OrderPositionViewSet.update as chains of queries.           *)
(***************************************************************************)
\* a purchaser sends a place order request
BeginPlace(r, u, c) ==
    /\ reqs[r].pc = "idle"
    /\ issued < MaxIssued
    /\ HasPermission(u, "place")
    /\ Cardinality(FreeOrderIds) > Cardinality({x \in RequestIds : reqs[x].pc \in {"plc_count", "plc_create"}})
    /\ reqs' = [reqs EXCEPT ![r] = [Idle EXCEPT !.pc = "plc_count", !.op = "place", !.user = u,
                                                 !.chain_store = c]]
    /\ issued' = issued + 1
    /\ UNCHANGED <<db, resp, chain_store_purchaser, purchaser_rows, shopping_carts>>

\* views.py:1097-1114  cart_positions.count(), the serializer and the owner of the chain store
PlcCount(r) ==
    LET q == reqs[r]
        rej == PlaceRejection(q.user, q.chain_store, Cardinality(CartStocks(q.user)))
    IN
    /\ q.pc = "plc_count"
    /\ IF rej # 0 THEN Finish(r, rej) ELSE Goto(r, "plc_create")
    /\ UNCHANGED <<db, issued, chain_store_purchaser, purchaser_rows, shopping_carts>>

\* views.py:1116-1119  perform_create inserts the Order row
PlcCreate(r) ==
    LET q == reqs[r]
        o == CHOOSE x \in FreeOrderIds : \A y \in FreeOrderIds : x <= y
    IN
    /\ q.pc = "plc_create"
    /\ orders' = [orders EXCEPT ![o] = NewOrder(q.user, q.chain_store)]
    /\ reqs' = [reqs EXCEPT ![r].pc = "plc_lines", ![r].order = o]
    /\ UNCHANGED <<resp, stockQuantity, stockPrice, order_status, cart_positions, order_positions, issued, chain_store_purchaser, purchaser_rows, shopping_carts>>

\* views.py:1121  the for loop evaluates the queryset of the cart positions
PlcLines(r) ==
    LET q == reqs[r]
        todo == CartStocks(q.user)
    IN
    /\ q.pc = "plc_lines"
    /\ reqs' = [reqs EXCEPT ![r].pc = IF todo = {} THEN "plc_delete" ELSE "plc_insert",
                            ![r].lines = cart_positions[q.user], ![r].todo = todo]
    /\ UNCHANGED <<resp, db, issued, chain_store_purchaser, purchaser_rows, shopping_carts>>

\* views.py:1122-1127  OrderPosition.objects.create for the next position of the loop
PlcInsert(r) ==
    LET q == reqs[r] IN
    /\ q.pc = "plc_insert"
    /\ \E s \in q.todo :
          /\ order_positions' = [order_positions EXCEPT ![q.order][s] = NewOrderPosition(q.lines[s])]
          /\ reqs' = [reqs EXCEPT ![r].pc = IF q.todo = {s} THEN "plc_delete" ELSE "plc_insert",
                                  ![r].todo = q.todo \ {s}]
    /\ UNCHANGED <<resp, stockQuantity, stockPrice, order_status, cart_positions, orders, issued, chain_store_purchaser, purchaser_rows, shopping_carts>>

\* views.py:1149  cart_positions.delete() deletes the rows the filter matches now
PlcDelete(r) ==
    LET q == reqs[r] IN
    /\ q.pc = "plc_delete"
    /\ cart_positions' = [cart_positions EXCEPT ![q.user] = [s \in Stocks |-> NoPosition]]
    /\ Finish(r, 201)
    /\ UNCHANGED <<stockQuantity, stockPrice, order_status, orders, order_positions, issued, chain_store_purchaser, purchaser_rows, shopping_carts>>

\* the process that handles the request stops (it is killed, or the connection to the
\* database is lost): every query already made is committed, as none is in a transaction
Crash(r) ==
    /\ reqs[r].pc # "idle"
    /\ Finish(r, 500)
    /\ UNCHANGED <<db, issued, chain_store_purchaser, purchaser_rows, shopping_carts>>

\* a purchaser sends a cancel order request
BeginCancel(r, u, o) ==
    /\ reqs[r].pc = "idle"
    /\ issued < MaxIssued
    /\ HasPermission(u, "cancel")
    /\ reqs' = [reqs EXCEPT ![r] = [Idle EXCEPT !.pc = "can_get", !.op = "cancel", !.user = u, !.order = o]]
    /\ issued' = issued + 1
    /\ UNCHANGED <<db, resp, chain_store_purchaser, purchaser_rows, shopping_carts>>

\* views.py:1176  get_object(): the Order row
CanGet(r) ==
    LET q == reqs[r] IN
    /\ q.pc = "can_get"
    /\ IF ~OrderVisible(q.user, q.order)
       THEN Finish(r, 404)
       ELSE reqs' = [reqs EXCEPT ![r].pc = "can_prefetch", ![r].instance = orders[q.order]]
            /\ UNCHANGED resp
    /\ UNCHANGED <<db, issued, chain_store_purchaser, purchaser_rows, shopping_carts>>

\* views.py:1046-1050  prefetch_related("order_positions"): the rows both loops of destroy
\* iterate; then views.py:1178-1190, the checks on the values read
CanPrefetch(r) ==
    LET q == reqs[r]
        positions == order_positions[q.order]
        rej == CancelRejection(q.instance.status, positions)
    IN
    /\ q.pc = "can_prefetch"
    /\ IF rej # 0
       THEN Finish(r, rej)
       ELSE reqs' = [reqs EXCEPT ![r].pc = "can_save", ![r].positions = positions,
                                 ![r].todo = {s \in Stocks : positions[s] # NoOrderPosition}]
            /\ UNCHANGED resp
    /\ UNCHANGED <<db, issued, chain_store_purchaser, purchaser_rows, shopping_carts>>

\* views.py:1192-1193  instance.save() writes every column of the Order read earlier
CanSave(r) ==
    LET q == reqs[r] IN
    /\ q.pc = "can_save"
    /\ orders' = [orders EXCEPT ![q.order] = [q.instance EXCEPT !.status = "cancelled"]]
    /\ IF q.todo = {} THEN Finish(r, 200) ELSE Goto(r, "can_read")
    /\ UNCHANGED <<stockQuantity, stockPrice, order_status, cart_positions, order_positions, issued, chain_store_purchaser, purchaser_rows, shopping_carts>>

\* views.py:1196  for the next position of the loop
CanRead(r) ==
    /\ reqs[r].pc = "can_read"
    /\ \E s \in reqs[r].todo : ReadStock(r, s, "can_restock")
    /\ UNCHANGED <<db, issued, chain_store_purchaser, purchaser_rows, shopping_carts>>

\* views.py:1197-1198
CanRestock(r) ==
    LET q == reqs[r]
        left == q.todo \ {q.stock}
    IN
    /\ q.pc = "can_restock"
    /\ SaveStock(r, Restock(q.snapQuantity, q.positions[q.stock].quantity))
    /\ IF left = {}
       THEN Finish(r, 200)
       ELSE reqs' = [reqs EXCEPT ![r].pc = "can_read", ![r].todo = left] /\ UNCHANGED resp
    /\ UNCHANGED <<order_status, cart_positions, orders, order_positions, issued, chain_store_purchaser, purchaser_rows, shopping_carts>>

\* a supplier sends a confirm / deliver request for a position
BeginConfirm(r, u, o, s, confirmed, delivered) ==
    /\ reqs[r].pc = "idle"
    /\ issued < MaxIssued
    /\ HasPermission(u, "confirm")
    /\ confirmed # "absent" \/ delivered # "absent"
    /\ reqs' = [reqs EXCEPT ![r] = [Idle EXCEPT !.pc = "conf_get", !.op = "confirm", !.user = u,
                                                 !.order = o, !.stock = s,
                                                 !.confirmed = confirmed, !.delivered = delivered]]
    /\ issued' = issued + 1
    /\ UNCHANGED <<db, resp, chain_store_purchaser, purchaser_rows, shopping_carts>>

\* views.py:1312  get_object(): the OrderPosition row
ConfGet(r) ==
    LET q == reqs[r] IN
    /\ q.pc = "conf_get"
    /\ IF ~OrderPositionVisible(q.user, q.order, q.stock)
       THEN Finish(r, 404)
       ELSE reqs' = [reqs EXCEPT ![r].pc = "conf_order",
                                 ![r].positions[q.stock] = order_positions[q.order][q.stock]]
            /\ UNCHANGED resp
    /\ UNCHANGED <<db, issued, chain_store_purchaser, purchaser_rows, shopping_carts>>

\* views.py:1313  instance.order fetches the Order row; then views.py:1319-1355
ConfOrder(r) ==
    LET q == reqs[r]
        rej == ConfirmRejection(orders[q.order].status, q.positions[q.stock], q.confirmed, q.delivered)
    IN
    /\ q.pc = "conf_order"
    /\ IF rej # 0 THEN Finish(r, rej) ELSE Goto(r, "conf_save")
    /\ UNCHANGED <<db, issued, chain_store_purchaser, purchaser_rows, shopping_carts>>

\* views.py:1356  instance.save() writes every column of the OrderPosition read earlier
ConfSave(r) ==
    LET q == reqs[r] IN
    /\ q.pc = "conf_save"
    /\ order_positions' = [order_positions EXCEPT ![q.order][q.stock] =
            ConfirmedPosition(q.positions[q.stock], q.confirmed, q.delivered)]
    /\ Finish(r, 200)
    /\ UNCHANGED <<stockQuantity, stockPrice, order_status, cart_positions, orders, issued, chain_store_purchaser, purchaser_rows, shopping_carts>>

\* the carts are filled and the orders placed by requests handled one after another,
\* before the first of the interleaved requests is sent
SetupAddLine(u, s, q) == issued = 0 /\ AddLine(u, s, q)
SetupPlaceOrder(u, c) == issued = 0 /\ PlaceOrder(u, c)
\* the bodies of the interleaved confirm / deliver requests
ConfirmBodies == {[confirmed |-> "true", delivered |-> "absent"], [confirmed |-> "absent", delivered |-> "true"]}

\* place order interleaved with add line and update line, and requests that stop midway
PlaceConcNext ==
    \/ \E u \in Purchasers, s \in Stocks, n \in ValidQuantities : SetupAddLine(u, s, IntV(n))
    \/ \E r \in RequestIds, u \in Purchasers, c \in ChainStores : BeginPlace(r, u, c)
    \/ \E r \in RequestIds, op \in {"add", "update"}, u \in Purchasers, s \in Stocks, n \in ValidQuantities :
          Begin(r, op, u, s, n)
    \/ \E r \in RequestIds : PlcCount(r)
    \/ \E r \in RequestIds : PlcCreate(r)
    \/ \E r \in RequestIds : PlcLines(r)
    \/ \E r \in RequestIds : PlcInsert(r)
    \/ \E r \in RequestIds : PlcDelete(r)
    \/ \E r \in RequestIds : AddExists(r)
    \/ \E r \in RequestIds : AddRead(r)
    \/ \E r \in RequestIds : AddSupplier(r)
    \/ \E r \in RequestIds : AddSave(r)
    \/ \E r \in RequestIds : AddInsert(r)
    \/ \E r \in RequestIds : UpdGet(r)
    \/ \E r \in RequestIds : UpdRead(r)
    \/ \E r \in RequestIds : UpdSupplier(r)
    \/ \E r \in RequestIds : UpdSave(r)
    \/ \E r \in RequestIds : UpdWrite(r)
    \/ \E r \in RequestIds : Crash(r)

SpecPlaceConc == Init /\ [][PlaceConcNext]_vars

\* cancel order interleaved with cancel order and with confirm / deliver
CancelConcNext ==
    \/ \E u \in Purchasers, s \in Stocks, n \in ValidQuantities : SetupAddLine(u, s, IntV(n))
    \/ \E u \in Purchasers, c \in ChainStores : SetupPlaceOrder(u, c)
    \/ \E r \in RequestIds, u \in Purchasers, o \in OrderIds : BeginCancel(r, u, o)
    \/ \E r \in RequestIds, u \in SupplierUsers, o \in OrderIds, s \in Stocks, body \in ConfirmBodies :
          BeginConfirm(r, u, o, s, body.confirmed, body.delivered)
    \/ \E r \in RequestIds : CanGet(r)
    \/ \E r \in RequestIds : CanPrefetch(r)
    \/ \E r \in RequestIds : CanSave(r)
    \/ \E r \in RequestIds : CanRead(r)
    \/ \E r \in RequestIds : CanRestock(r)
    \/ \E r \in RequestIds : ConfGet(r)
    \/ \E r \in RequestIds : ConfOrder(r)
    \/ \E r \in RequestIds : ConfSave(r)

SpecCancelConc == Init /\ [][CancelConcNext]_vars

\* the life of an order's positions while prices and quantities of the stocks change:
\* requests of one purchaser and of the suppliers that pass the permission classes
PositionNext ==
    \/ \E s \in Stocks, n \in ValidQuantities : AddLine("alice", s, IntV(n))
    \/ \E s \in Stocks : RemoveLine("alice", "alice", s)
    \/ \E c \in ChainStores : PlaceOrder("alice", c)
    \/ \E o \in OrderIds : CancelOrder("alice", o)
    \/ \E o \in OrderIds, body \in AmendBodies : AmendOrder("alice", o, body)
    \/ \E u \in SupplierUsers, o \in OrderIds, s \in Stocks, body \in ConfirmBodies :
          OrderPositionUpdate(u, o, s, body.confirmed, body.delivered)
    \/ \E u \in SupplierUsers, s \in Stocks, price \in Prices : StockUpdatePrice(u, s, price)
    \/ \E u \in StaffUsers, o \in OrderIds, s \in Stocks, confirmed \in BOOLEAN, delivered \in BOOLEAN :
          OrderPositionAdminChange(u, o, s, confirmed, delivered)

SpecPosition == Init /\ [][PositionNext]_vars

(***************************************************************************)
(* Reading one order.  The order is any order the program can hold: lines  *)
(* of up to four stocks of three suppliers (the stocks after s2 belong to  *)
(* one supplier), each with a quantity and a price snapshot.               *)
(***************************************************************************)
AmountStocks == Stocks \cup {"s3", "s4"}
AmountRows ==
    {NoOrderPosition} \cup
    {[quantity |-> q, price |-> p, confirmed |-> FALSE, delivered |-> FALSE] :
        q \in ValidQuantities, p \in Prices}

InitAmount ==
    /\ stockQuantity = InitQuantity
    /\ stockPrice = [s \in Stocks |-> 1]
    /\ order_status = [u \in SupplierUsers |-> TRUE]
    /\ cart_positions = [p \in Purchasers |-> [s \in Stocks |-> NoPosition]]
    /\ orders = [o \in OrderIds |-> IF o = 1 THEN NewOrder("alice", "c1") ELSE NoOrder]
    /\ chain_store_purchaser = InitChainStorePurchaser
    /\ purchaser_rows = Purchasers
    /\ shopping_carts = Purchasers
    /\ \E lines \in [AmountStocks -> AmountRows] :
          /\ Rows(lines) # {}
          /\ order_positions = [o \in OrderIds |->
                IF o = 1 THEN lines ELSE [s \in AmountStocks |-> NoOrderPosition]]
    /\ resp = Response("none", 0)
    /\ reqs = [r \in RequestIds |-> Idle]
    /\ issued = 0

AmountNext == \E u \in Users, o \in OrderIds : RetrieveOrder(u, o)

SpecAmount == InitAmount /\ [][AmountNext]_vars

(***************************************************************************)
(* Requests of a superuser through the REST interface.  A superuser has a  *)
(* User.type like any user (createsuperuser leaves the default), and owns  *)
(* no Purchaser or Supplier row.                                           *)
(***************************************************************************)
ApiSuperusers == Superusers \cup {"root_p", "root_s"}
\* User.type of a superuser
SuperuserType(u) ==
    IF u = "root_p" THEN "purchaser" ELSE IF u = "root_s" THEN "supplier" ELSE "admin"

AdminOperations == {"update", "remove", "clear", "cancel", "amend", "confirm"}
\* the user type that has_permission of the action's permission class asks for
RequiredType(op) == IF op = "confirm" THEN "supplier" ELSE "purchaser"
\* get_object() with the superuser branch of get_queryset: every row of the table
TargetExists(op, p, s, o) ==
    CASE op \in {"update", "remove"} -> HasPosition(p, s)
      [] op = "clear" -> TRUE
      [] op \in {"cancel", "amend"} -> orders[o] # NoOrder
      [] op = "confirm" -> HasOrderPosition(o, s)
\* the user has_object_permission compares request.user with
TargetOwner(op, p, s, o) ==
    CASE op \in {"update", "remove", "clear"} -> p
      [] op \in {"cancel", "amend"} -> orders[o].purchaser
      [] op = "confirm" -> StockSupplier(s)

\* status of the permission checks for a superuser, 0 when the request passes them
AdminRejection(u, op, p, s, o) ==
    IF SuperuserType(u) # RequiredType(op) THEN 403
    ELSE IF ~TargetExists(op, p, s, o) THEN 404
    ELSE IF TargetOwner(op, p, s, o) # u THEN 403
    ELSE 0

\* a request of a superuser with a well-formed body; the response records the requester
\* and whether the row it names exists.  No row belongs to a superuser, so the request
\* never gets past the permission checks.
AdminRequest(u, op, p, s, o) ==
    /\ AdminRejection(u, op, p, s, o) # 0
    /\ resp' = [op |-> op, status |-> AdminRejection(u, op, p, s, o), user |-> u,
                found |-> TargetExists(op, p, s, o)]
    /\ UNCHANGED <<conc, db, chain_store_purchaser, purchaser_rows, shopping_carts>>

AdminNext ==
    \/ \E s \in Stocks, n \in ValidQuantities : AddLine("alice", s, IntV(n))
    \/ \E c \in ChainStores : PlaceOrder("alice", c)
    \/ \E o \in OrderIds : CancelOrder("alice", o)
    \/ \E u \in SupplierUsers, o \in OrderIds, s \in Stocks, body \in ConfirmBodies :
          OrderPositionUpdate(u, o, s, body.confirmed, body.delivered)
    \/ \E u \in ApiSuperusers, op \in AdminOperations, p \in Purchasers, s \in Stocks, o \in OrderIds :
          AdminRequest(u, op, p, s, o)

SpecAdmin == Init /\ [][AdminNext]_vars

(***************************************************************************)
(* Reading: the list action of the viewsets of the protected entities and  *)
(* the retrieve action of OrderViewSet.                                    *)
(***************************************************************************)
Anonymous == "anonymous"
Readers == Users \cup ApiSuperusers \cup {Anonymous}
\* User.is_superuser and User.type of an authenticated reader
IsSuperuser(u) == u \in ApiSuperusers
ReaderType(u) == IF u \in ApiSuperusers THEN SuperuserType(u) ELSE UserType(u)

Entities == {"suppliers", "stocks", "purchasers", "shopping_carts", "cart_positions",
             "chain_stores", "orders", "order_positions"}

\* a bug: a supplier's queryset of orders is not filtered
OrderQuerysetUnfiltered(u) == {o \in OrderIds : orders[o] # NoOrder}
\* OrderViewSet.get_queryset, views.py:1036-1064
OrderQueryset(u) ==
    IF IsSuperuser(u) THEN {o \in OrderIds : orders[o] # NoOrder}
    ELSE IF ReaderType(u) = "purchaser"
    THEN {o \in OrderIds : orders[o] # NoOrder /\ orders[o].purchaser = u}
    ELSE {o \in OrderIds : orders[o] # NoOrder /\ \E s \in Stocks :
             HasOrderPosition(o, s) /\ StockSupplier(s) = u}

\* get_queryset of the viewset of the entity, for an authenticated user that passes the
\* permission of list: the identifiers of the rows of the queryset
Queryset(u, entity) ==
    LET super == IsSuperuser(u)
        type == ReaderType(u)
    IN  CASE entity = "suppliers" ->
               IF super \/ type = "purchaser" THEN SupplierUsers ELSE {u} \cap SupplierUsers
          [] entity = "stocks" ->
               IF super THEN Stocks
               ELSE IF type = "purchaser"
               THEN {s \in Stocks : order_status[StockSupplier(s)] /\ stockQuantity[s] > 0}
               ELSE {s \in Stocks : StockSupplier(s) = u}
          [] entity = "purchasers" ->
               IF super THEN Purchasers ELSE {u} \cap Purchasers
          [] entity = "shopping_carts" ->
               IF super THEN Purchasers
               ELSE IF type = "purchaser" THEN {u}
               ELSE {p \in Purchasers : \E s \in Stocks : HasPosition(p, s) /\ StockSupplier(s) = u}
          [] entity = "cart_positions" ->
               {x \in Purchasers \X Stocks :
                   /\ HasPosition(x[1], x[2])
                   /\ super \/ (IF type = "purchaser" THEN x[1] = u ELSE StockSupplier(x[2]) = u)}
          [] entity = "chain_stores" ->
               IF super \/ type = "supplier" THEN ChainStores
               ELSE {c \in ChainStores : ChainStorePurchaser(c) = u}
          [] entity = "orders" -> OrderQueryset(u)
          [] entity = "order_positions" ->
               {x \in OrderIds \X Stocks :
                   /\ HasOrderPosition(x[1], x[2])
                   /\ super \/ (IF type = "purchaser" THEN orders[x[1]].purchaser = u
                                ELSE StockSupplier(x[2]) = u)}

\* has_permission of the permission class of the list action: IsAuthenticated, but
\* IsAdmin | IsPurchaser for purchasers (views.py:689-691)
ListPermission(u, entity) ==
    /\ u # Anonymous
    /\ entity = "purchasers" => (IsSuperuser(u) \/ ReaderType(u) = "purchaser")

\* GET on the collection of the entity.  An unauthenticated request gets 401 or 403 (which
\* of the two depends on the authentication class).
ListRead(u, entity) ==
    /\ UNCHANGED <<conc, db, chain_store_purchaser, purchaser_rows, shopping_carts>>
    /\ IF u = Anonymous
       THEN \E st \in {401, 403} :
               resp' = [op |-> "list", status |-> st, user |-> u, entity |-> entity, rows |-> {}]
       ELSE IF ~ListPermission(u, entity)
       THEN resp' = [op |-> "list", status |-> 403, user |-> u, entity |-> entity, rows |-> {}]
       ELSE resp' = [op |-> "list", status |-> 200, user |-> u, entity |-> entity,
                     rows |-> Queryset(u, entity)]

\* GET on one order: RetrievePerm = IsAdmin | IsPurchaserOwner | IsOrderStockOwner, then
\* get_object() on the queryset and the object permission, which every order of the
\* user's queryset passes
ReadOrder(u, o) ==
    /\ UNCHANGED <<conc, db, chain_store_purchaser, purchaser_rows, shopping_carts>>
    /\ IF u = Anonymous
       THEN \E st \in {401, 403} :
               resp' = [op |-> "read", status |-> st, user |-> u, order |-> o]
       ELSE IF ~(IsSuperuser(u) \/ ReaderType(u) \in {"purchaser", "supplier"})
       THEN resp' = [op |-> "read", status |-> 403, user |-> u, order |-> o]
       ELSE IF o \notin OrderQueryset(u)
       THEN resp' = [op |-> "read", status |-> 404, user |-> u, order |-> o]
       ELSE resp' = [op |-> "read", status |-> 200, user |-> u, order |-> o, data |-> OrderData(o)]

ReadNext ==
    \/ \E p \in Purchasers, s \in Stocks, n \in ValidQuantities : AddLine(p, s, IntV(n))
    \/ \E p \in Purchasers, c \in ChainStores : PlaceOrder(p, c)
    \/ \E u \in Readers, entity \in Entities : ListRead(u, entity)
    \/ \E u \in Readers, o \in OrderIds : ReadOrder(u, o)

SpecRead == Init /\ [][ReadNext]_vars

(***************************************************************************)
(* Notifications.  The handlers call send_email.delay() with no try /      *)
(* except around it.  The call returns once the task is queued: send_mail  *)
(* then runs (and may fail) in the worker.  When the task cannot be queued *)
(* the call raises in the request, after the rows were written.            *)
(***************************************************************************)
Gateway == {"delivered", "worker_failed", "not_queued"}
\* send_email.delay() returns
Enqueued(g) == g # "not_queued"
\* the status of a request that has sent a notification: an uncaught exception is a 500
NotifyStatus(g, st) == IF Enqueued(g) THEN st ELSE 500

\* OrderViewSet.create with its notifications (views.py:1149-1168): the first delay()
\* comes after the positions are created and the cart is deleted
PlaceOrderNotify(u, c, g) ==
    LET rej == PlaceRejection(u, c, Cardinality(CartStocks(u)))
    IN  /\ HasPermission(u, "place")
        /\ UNCHANGED <<conc, chain_store_purchaser, purchaser_rows, shopping_carts>>
        /\ IF rej # 0
           THEN resp' = Response("place", rej) /\ UNCHANGED db
           ELSE /\ FreeOrderIds # {}
                /\ LET o == CHOOSE x \in FreeOrderIds : \A y \in FreeOrderIds : x <= y
                   IN  /\ orders' = [orders EXCEPT ![o] = NewOrder(u, c)]
                       /\ order_positions' = [order_positions EXCEPT ![o] =
                             [s \in Stocks |-> IF HasPosition(u, s)
                                               THEN NewOrderPosition(cart_positions[u][s])
                                               ELSE NoOrderPosition]]
                       /\ resp' = [op |-> "place", status |-> NotifyStatus(g, 201), gateway |-> g]
                /\ cart_positions' = [cart_positions EXCEPT ![u] = [s \in Stocks |-> NoPosition]]
                /\ UNCHANGED <<stockQuantity, stockPrice, order_status>>

\* OrderPositionViewSet.update with the post_save receiver (signals.py:20-50), which runs
\* inside instance.save() after the row is written and sends nothing when no flag changed
OrderPositionUpdateNotify(u, o, s, confirmed, delivered, g) ==
    /\ HasPermission(u, "confirm")
    /\ UNCHANGED <<conc, chain_store_purchaser, purchaser_rows, shopping_carts>>
    /\ IF confirmed = "absent" /\ delivered = "absent"
       THEN resp' = Response("confirm", 400) /\ UNCHANGED db
       ELSE IF ~OrderPositionVisible(u, o, s)
       THEN resp' = Response("confirm", 404) /\ UNCHANGED db
       ELSE LET rej == ConfirmRejection(orders[o].status, order_positions[o][s], confirmed, delivered)
                after == ConfirmedPosition(order_positions[o][s], confirmed, delivered)
            IN  IF rej # 0
                THEN resp' = Response("confirm", rej) /\ UNCHANGED db
                ELSE /\ order_positions' = [order_positions EXCEPT ![o][s] = after]
                     /\ UNCHANGED <<stockQuantity, stockPrice, order_status, cart_positions, orders>>
                     /\ IF after = order_positions[o][s]
                        THEN resp' = Response("confirm", 200)
                        ELSE resp' = [op |-> "confirm", status |-> NotifyStatus(g, 200), gateway |-> g]

NotifyNext ==
    \/ \E p \in Purchasers, s \in Stocks, n \in ValidQuantities : AddLine(p, s, IntV(n))
    \/ \E p \in Purchasers, c \in ChainStores, g \in Gateway : PlaceOrderNotify(p, c, g)
    \/ \E u \in SupplierUsers, o \in OrderIds, s \in Stocks, confirmed \in FlagValues,
          delivered \in FlagValues, g \in Gateway :
          OrderPositionUpdateNotify(u, o, s, confirmed, delivered, g)

SpecNotify == Init /\ [][NotifyNext]_vars

(***************************************************************************)
(* PurchaserViewSet.create (views.py:701-716): the Purchaser row and its   *)
(* ShoppingCart row are inserted by two separate queries, with no          *)
(* transaction around them.                                                *)
(***************************************************************************)
\* a user of type purchaser sends POST /purchasers/
BeginRegister(r, u) ==
    /\ reqs[r].pc = "idle"
    /\ issued < MaxIssued
    /\ UserType(u) = "purchaser"
    /\ reqs' = [reqs EXCEPT ![r] = [Idle EXCEPT !.pc = "reg_valid", !.op = "register", !.user = u]]
    /\ issued' = issued + 1
    /\ UNCHANGED <<db, resp, chain_store_purchaser, purchaser_rows, shopping_carts>>

\* views.py:708  serializer.is_valid(): Purchaser.user is one to one
RegValid(r) ==
    /\ reqs[r].pc = "reg_valid"
    /\ IF reqs[r].user \in purchaser_rows THEN Finish(r, 400) ELSE Goto(r, "reg_create")
    /\ UNCHANGED <<db, issued, chain_store_purchaser, purchaser_rows, shopping_carts>>

\* views.py:709  perform_create inserts the Purchaser row (an IntegrityError when another
\* request inserted it since the validation)
RegCreate(r) ==
    /\ reqs[r].pc = "reg_create"
    /\ IF reqs[r].user \in purchaser_rows
       THEN Finish(r, 500) /\ UNCHANGED purchaser_rows
       ELSE purchaser_rows' = purchaser_rows \cup {reqs[r].user} /\ Goto(r, "reg_cart")
    /\ UNCHANGED <<db, issued, chain_store_purchaser, shopping_carts>>

\* views.py:711-713  ShoppingCart.objects.create(purchaser=...)
RegCart(r) ==
    /\ reqs[r].pc = "reg_cart"
    /\ shopping_carts' = shopping_carts \cup {reqs[r].user}
    /\ Finish(r, 201)
    /\ UNCHANGED <<db, issued, chain_store_purchaser, purchaser_rows>>

RegisterNext ==
    \/ \E r \in RequestIds, u \in Purchasers \cup NewPurchaserUsers : BeginRegister(r, u)
    \/ \E r \in RequestIds : RegValid(r)
    \/ \E r \in RequestIds : RegCreate(r)
    \/ \E r \in RequestIds : RegCart(r)
    \/ \E r \in RequestIds : Crash(r)

SpecRegister == Init /\ [][RegisterNext]_vars

(***************************************************************************)
(* do_import (tasks.py:20-104).  A Stock row is named by its key (sku,     *)
(* product, supplier), which unique_stock keeps unique; the rows of the    *)
(* table are the domain of stockQuantity.  The first supplier starts with  *)
(* a second stock, s5, and may import a new one, s6.                       *)
(***************************************************************************)
ImportKeys == Stocks \cup {"s5", "s6"}
StockRows == DOMAIN stockQuantity
\* the goods of a document of the supplier: key -> quantity and price
Documents(u) ==
    UNION {[keys -> [quantity : 0..MaxQuantity, price : Prices]] :
              keys \in SUBSET {k \in ImportKeys : StockSupplier(k) = u}}

\* a bug: the stocks of the supplier are not set to zero before the goods are applied
ZeroedKept(quantity) == quantity
\* tasks.py:58-60
Zeroed(quantity) == 0

\* tasks.py:58-60, then 62-90 for every good: the row with the key of the good is updated
\* when it exists and created when it does not
ImportedQuantity(u, doc) ==
    [s \in StockRows \cup DOMAIN doc |->
        IF s \in DOMAIN doc THEN doc[s].quantity
        ELSE IF StockSupplier(s) = u THEN Zeroed(stockQuantity[s])
        ELSE stockQuantity[s]]
ImportedPrice(u, doc) ==
    [s \in StockRows \cup DOMAIN doc |->
        IF s \in DOMAIN doc THEN doc[s].price ELSE stockPrice[s]]

\* the task that POST /import/ of a supplier queues, run to its end
Import(u, doc) ==
    /\ UserType(u) = "supplier"
    /\ stockQuantity' = ImportedQuantity(u, doc)
    /\ stockPrice' = ImportedPrice(u, doc)
    /\ resp' = [op |-> "import", status |-> 200, user |-> u, doc |-> doc]
    /\ UNCHANGED <<order_status, cart_positions, orders, order_positions, conc,
                   chain_store_purchaser, purchaser_rows, shopping_carts>>

InitImport ==
    /\ stockQuantity = [s \in Stocks \cup {"s5"} |-> IF s = "s5" THEN 1 ELSE InitQuantity[s]]
    /\ stockPrice = [s \in Stocks \cup {"s5"} |-> 1]
    /\ order_status = [u \in SupplierUsers |-> TRUE]
    /\ cart_positions = [p \in Purchasers |-> [s \in Stocks |-> NoPosition]]
    /\ orders = [o \in OrderIds |-> NoOrder]
    /\ chain_store_purchaser = InitChainStorePurchaser
    /\ purchaser_rows = Purchasers
    /\ shopping_carts = Purchasers
    /\ order_positions = [o \in OrderIds |-> [s \in Stocks |-> NoOrderPosition]]
    /\ resp = Response("none", 0)
    /\ reqs = [r \in RequestIds |-> Idle]
    /\ issued = 0

ImportNext ==
    \/ \E n \in ValidQuantities : AddLine("alice", "s1", IntV(n))
    \/ PlaceOrder("alice", "c1")
    \/ \E doc \in Documents("sup1") : Import("sup1", doc)

SpecImport == InitImport /\ [][ImportNext]_vars

(***************************************************************************)
(* SupplierViewSet.destroy (DELETE /suppliers/<id>/), and the requests of  *)
(* the life of a reservation: cart line, order, cancellation, delivery.    *)
(***************************************************************************)
\* a bug: the flag of the supplier is left as it is
StoppedKept(accepting) == accepting
\* views.py:321  instance.order_status = False
Stopped(accepting) == FALSE

\* get_permissions: IsAdmin for destroy; get_queryset gives a superuser every supplier
SupplierDestroy(u, sup) ==
    /\ UNCHANGED <<conc, chain_store_purchaser, purchaser_rows, shopping_carts>>
    /\ IF u \notin Superusers
       THEN /\ resp' = [op |-> "destroy", status |-> 403, supplier |-> sup]
            /\ UNCHANGED db
       ELSE /\ order_status' = [order_status EXCEPT ![sup] = Stopped(@)]
            /\ resp' = [op |-> "destroy", status |-> 204, supplier |-> sup]
            /\ UNCHANGED <<stockQuantity, stockPrice, cart_positions, orders, order_positions>>

LifecycleNext ==
    \/ \E u \in Purchasers, s \in Stocks, n \in ValidQuantities : AddLine(u, s, IntV(n))
    \/ \E u \in Purchasers, s \in Stocks, n \in ValidQuantities : UpdateLine(u, u, s, IntV(n), FALSE)
    \/ \E u \in Purchasers, s \in Stocks : RemoveLine(u, u, s)
    \/ \E u \in Purchasers : ClearCart(u, u)
    \/ \E u \in Purchasers, c \in ChainStores : PlaceOrder(u, c)
    \/ \E u \in Purchasers, o \in OrderIds : CancelOrder(u, o)
    \/ \E u \in SupplierUsers, o \in OrderIds, s \in Stocks, body \in ConfirmBodies :
          OrderPositionUpdate(u, o, s, body.confirmed, body.delivered)
    \/ \E u \in Superusers \cup {"sup1"}, sup \in SupplierUsers : SupplierDestroy(u, sup)
    \/ \E sup \in SupplierUsers : SupplierUpdate(sup, sup, TRUE)

SpecLifecycle == Init /\ [][LifecycleNext]_vars

(***************************************************************************)
(* Add line requests of one purchaser, interleaved (a repeated POST).      *)
(***************************************************************************)
DuplicateAddNext ==
    \/ \E r \in RequestIds, s \in Stocks, n \in ValidQuantities : Begin(r, "add", "alice", s, n)
    \/ \E r \in RequestIds : AddExists(r)
    \/ \E r \in RequestIds : AddRead(r)
    \/ \E r \in RequestIds : AddSupplier(r)
    \/ \E r \in RequestIds : AddSave(r)
    \/ \E r \in RequestIds : AddInsert(r)

SpecDuplicateAdd == Init /\ [][DuplicateAddNext]_vars

(***************************************************************************)
(* Place order interleaved with remove line and clear cart of the same     *)
(* purchaser.                                                              *)
(***************************************************************************)
PlaceRemoveNext ==
    \/ \E u \in Purchasers, s \in Stocks, n \in ValidQuantities : SetupAddLine(u, s, IntV(n))
    \/ \E r \in RequestIds, u \in Purchasers, c \in ChainStores : BeginPlace(r, u, c)
    \/ \E r \in RequestIds, op \in {"remove", "clear"}, u \in Purchasers, s \in Stocks :
          Begin(r, op, u, s, 0)
    \/ \E r \in RequestIds : PlcCount(r)
    \/ \E r \in RequestIds : PlcCreate(r)
    \/ \E r \in RequestIds : PlcLines(r)
    \/ \E r \in RequestIds : PlcInsert(r)
    \/ \E r \in RequestIds : PlcDelete(r)
    \/ \E r \in RequestIds : RemGet(r)
    \/ \E r \in RequestIds : RemRead(r)
    \/ \E r \in RequestIds : RemSave(r)
    \/ \E r \in RequestIds : RemDelete(r)
    \/ \E r \in RequestIds : ClrGet(r)
    \/ \E r \in RequestIds : ClrRead(r)
    \/ \E r \in RequestIds : ClrSave(r)
    \/ \E r \in RequestIds : ClrDelete(r)

SpecPlaceRemove == Init /\ [][PlaceRemoveNext]_vars

(***************************************************************************)
(* Properties of the sequential specifications.                            *)
(***************************************************************************)
RECURSIVE SumQuantity(_, _)
\* sum of f[x].quantity over the set S
SumQuantity(f, S) ==
    IF S = {} THEN 0
    ELSE LET x == CHOOSE y \in S : TRUE IN f[x].quantity + SumQuantity(f, S \ {x})

\* quantity of stock s held by cart positions
InCarts(s) == SumQuantity([p \in Purchasers |-> cart_positions[p][s]], Purchasers)
EmptyCart == [s \in Stocks |-> NoPosition]
Rejected(r) == r.status >= 400

C4_AddRejected ==
    [][resp'.op = "add" =>
        IF Rejected(resp')
        THEN UNCHANGED <<stockQuantity, cart_positions>>
        ELSE \A u \in Purchasers, s \in Stocks, q \in RequestQuantities :
                (\/ InvalidQuantity(q)
                 \/ ~order_status[StockSupplier(s)]
                 \/ Num(q) > stockQuantity[s]
                 \/ HasPosition(u, s))
                => ~AddLine(u, s, q)]_vars

\* alice holds every unit of s1 and the last add was rejected with quantity 0 left
C4_Witness ==
    /\ resp = Response("add", 400)
    /\ cart_positions["alice"]["s1"].quantity = MaxQuantity
    /\ ~HasPosition("bob", "s1")
    /\ stockQuantity["s1"] = 0

\* C5: a successful add line of quantity q takes exactly q from the Stock and
\* creates one position (quantity q, price = Stock.price) in the caller's
\* cart; every other Stock and position is unchanged.
C5_AddEffect ==
    [][(resp'.op = "add" /\ resp'.status = 201) =>
        \A u \in Purchasers, s \in Stocks, q \in RequestQuantities :
            AddLine(u, s, q)
            => (/\ ~HasPosition(u, s)
                /\ stockQuantity' = [stockQuantity EXCEPT ![s] = @ - Num(q)]
                /\ cart_positions' = [cart_positions EXCEPT ![u][s] =
                                        [quantity |-> Num(q), price |-> stockPrice[s]]]
                /\ Num(q) > 0
                /\ UNCHANGED <<stockPrice, orders, order_positions>>)]_vars

\* a line added after the supplier raised the price carries the new price
C5_Witness ==
    /\ resp = Response("add", 201)
    /\ cart_positions["bob"]["s1"] = [quantity |-> 1, price |-> 2]
    /\ stockQuantity["s1"] = MaxQuantity - 1

\* C6 as claimed: a successful update line never changes the position's price.
C6_PriceKept ==
    [][(resp'.op = "update" /\ resp'.status = 200) =>
        \A p \in Purchasers, s \in Stocks :
            cart_positions'[p][s].price = cart_positions[p][s].price]_vars

\* C7: update line to a positive integer quantity not above the current one
\* succeeds and gives exactly the difference back to the Stock, whatever
\* order_status and Stock.quantity are.
C7_Decrease ==
    [][resp'.op = "update" =>
        \A p \in Purchasers, s \in Stocks, q \in RequestQuantities :
            (/\ HasPosition(p, s)
             /\ ~InvalidQuantity(q)
             /\ Num(q) <= cart_positions[p][s].quantity
             /\ UpdateLine(p, p, s, q, FALSE))
            => (/\ resp'.status = 200
                /\ stockQuantity' = [stockQuantity EXCEPT ![s] = @ + cart_positions[p][s].quantity - Num(q)]
                /\ cart_positions'[p][s].quantity = Num(q))]_vars

\* an update went through to one unit while the supplier takes no orders
C7_Witness ==
    /\ resp = Response("update", 200)
    /\ ~order_status["sup1"]
    /\ cart_positions["alice"]["s1"].quantity = 1
    /\ ~HasPosition("bob", "s1")
    /\ stockQuantity["s1"] = MaxQuantity - 1

C10_PlaceOrder ==
    [][(resp'.op = "place" /\ resp'.status = 201) =>
        \A u \in Purchasers, c \in ChainStores :
                PlaceOrder(u, c)
                => \E o \in OrderIds :
                      /\ orders[o] = NoOrder
                      /\ orders' = [orders EXCEPT ![o] = [purchaser |-> u, chain_store |-> c, status |-> "saved"]]
                      /\ \A x \in OrderIds \ {o} : order_positions'[x] = order_positions[x]
                      /\ \A s \in Stocks :
                            IF HasPosition(u, s)
                            THEN order_positions'[o][s] =
                                    [quantity |-> cart_positions[u][s].quantity,
                                     price |-> cart_positions[u][s].price,
                                     confirmed |-> FALSE, delivered |-> FALSE]
                            ELSE order_positions'[o][s] = NoOrderPosition
                      /\ cart_positions' = [cart_positions EXCEPT ![u] = EmptyCart]
                      /\ UNCHANGED <<stockQuantity, stockPrice>>]_vars

\* an order of two lines was placed from alice's cart
C10_Witness ==
    /\ resp = Response("place", 201)
    /\ orders[1] = [purchaser |-> "alice", chain_store |-> "c1", status |-> "saved"]
    /\ order_positions[1]["s1"] = [quantity |-> MaxQuantity, price |-> 2, confirmed |-> FALSE, delivered |-> FALSE]
    /\ order_positions[1]["s2"].quantity = 1
    /\ cart_positions["alice"] = EmptyCart
    /\ stockQuantity["s1"] = 0

(***************************************************************************)
(* Properties of the interleaved specification.                            *)
(***************************************************************************)
\* quantity of stock s held by positions of saved orders
InSavedOrders(s) ==
    SumQuantity([o \in OrderIds |-> IF orders[o].status = "saved" THEN order_positions[o][s] ELSE NoOrderPosition],
                OrderIds)

\* C2: once interleaved Stock-quantity mutations have all completed, on-hand
\* quantity plus the quantity held by cart positions and by positions of
\* saved orders equals the initial on-hand quantity of every Stock.
C2_NoLostUpdate ==
    Quiet => \A s \in Stocks : stockQuantity[s] + InCarts(s) + InSavedOrders(s) = InitQuantity[s]

\* C3: in every state reachable by interleaved add line and update line
\* requests (and remove line, clear cart) no Stock.quantity is below 0.
C3_NoNegativeQuantity == \A s \in Stocks : stockQuantity[s] >= 0

\* two interleaved adds both took every unit of s1
C3_Witness ==
    /\ Quiet
    /\ stockQuantity["s1"] = 0
    /\ cart_positions["alice"]["s1"].quantity = MaxQuantity
    /\ cart_positions["bob"]["s1"].quantity = MaxQuantity

(***************************************************************************)
(* Claims about orders                                                     *)
(***************************************************************************)
OrderRequests == {"amend", "cancel", "confirm"}
Cancellable(o) == orders[o].status = "saved" /\ ~AnyMoved(order_positions[o])

\* C13: place order is rejected when the purchaser's cart is empty or the chain store is
\* not the purchaser's; a rejected place order creates no Order and no OrderPosition and
\* leaves the cart positions and the Stock quantities unchanged
C13_PlaceRejected ==
    [][resp'.op = "place" =>
        IF Rejected(resp')
        THEN UNCHANGED <<orders, order_positions, cart_positions, stockQuantity>>
        ELSE \A u \in Purchasers, c \in ChainStores :
                (CartStocks(u) = {} \/ ChainStorePurchaser(c) # u) => ~PlaceOrder(u, c)]_vars

\* both carts hold a line, no order exists and a place order was rejected: the chain
\* store was not the purchaser's
C13_Witness ==
    /\ resp = Response("place", 400)
    /\ \A p \in Purchasers : CartStocks(p) # {}
    /\ \A o \in OrderIds : orders[o] = NoOrder

\* C14: a successful cancel of a saved order with no confirmed or delivered position
\* sets the status to cancelled and adds each position's quantity to its Stock.quantity;
\* the order's positions are unchanged (and such a cancel by the owner succeeds)
C14_CancelEffect ==
    [][resp'.op = "cancel" =>
        IF resp'.status = 200
        THEN \E o \in OrderIds :
                /\ Cancellable(o)
                /\ orders' = [orders EXCEPT ![o].status = "cancelled"]
                /\ \A s \in Stocks : stockQuantity'[s] = stockQuantity[s] + order_positions[o][s].quantity
                /\ order_positions' = order_positions
        ELSE \A u \in Purchasers, o \in OrderIds :
                (OrderVisible(u, o) /\ Cancellable(o)) => ~CancelOrder(u, o)]_vars

\* an order with a line of each stock was cancelled and everything is back on the shelf
C14_Witness ==
    /\ resp = Response("cancel", 200)
    /\ orders[1].status = "cancelled"
    /\ \A s \in Stocks : HasOrderPosition(1, s)
    /\ stockQuantity = InitQuantity

\* C15: cancel order is rejected when the order is already cancelled or a position is
\* confirmed or delivered; a rejected cancel leaves the order and every Stock.quantity
\* unchanged, so the quantities of an order are returned to stock at most once: what is
\* on the shelf, in the carts and in the saved orders always adds up to the initial stock
C15_CancelRejected ==
    /\ [][resp'.op = "cancel" =>
            IF Rejected(resp')
            THEN UNCHANGED <<orders, order_positions, stockQuantity>>
            ELSE \A u \in Purchasers, o \in OrderIds :
                    (orders[o].status = "cancelled" \/ AnyMoved(order_positions[o])) => ~CancelOrder(u, o)]_vars
    /\ [](\A s \in Stocks : stockQuantity[s] + InCarts(s) + InSavedOrders(s) = InitQuantity[s])

\* a cancel was rejected on an order that is already cancelled
C15_Witness ==
    /\ resp = Response("cancel", 400)
    /\ orders[1].status = "cancelled"
    /\ HasOrderPosition(1, "s1")
    /\ stockQuantity["s1"] + InCarts("s1") = InitQuantity["s1"]

\* C17: every order is created as saved, the only change of status is saved -> cancelled,
\* and a cancelled order is cancelled in every later state
C17_StatusMachine ==
    [][\A o \in OrderIds :
          /\ orders[o] = NoOrder => orders'[o] = NoOrder \/ orders'[o].status = "saved"
          /\ orders[o].status = "saved" => orders'[o].status \in {"saved", "cancelled"}
          /\ orders[o].status = "cancelled" => orders'[o].status = "cancelled"]_vars

\* a cancelled order has since been the target of a rejected amend
C17_Witness ==
    /\ orders[1].status = "cancelled"
    /\ resp = Response("amend", 400)

\* C18: every amend, cancel and confirm / deliver request that targets a cancelled order
\* or one of its positions is rejected, and through the requests of the REST interface
\* the chain store of a cancelled order and the flags of its positions stay as they were
C18_CancelledFrozen ==
    [][resp'.op # "admin" =>
        /\ \A o \in OrderIds : orders[o].status = "cancelled" =>
              orders'[o] = orders[o] /\ order_positions'[o] = order_positions[o]
        /\ (resp'.op \in OrderRequests /\ ~Rejected(resp')) =>
              \A o \in OrderIds : orders[o].status = "cancelled" =>
                 /\ \A u \in Purchasers : ~CancelOrder(u, o)
                 /\ \A u \in Purchasers, body \in AmendBodies : ~AmendOrder(u, o, body)
                 /\ \A u \in SupplierUsers, s \in Stocks, confirmed \in FlagValues, delivered \in FlagValues :
                       ~OrderPositionUpdate(u, o, s, confirmed, delivered)]_vars

\* a confirm / deliver request on a position of a cancelled order was rejected
C18_Witness ==
    /\ resp = Response("confirm", 400)
    /\ orders[1].status = "cancelled"
    /\ \A s \in Stocks : HasOrderPosition(1, s) /\ ~order_positions[1][s].confirmed

NothingPlaced(q) == q.order = 0
\* the place order request q has done all its work: the order holds every line the
\* request read and the cart is empty
AllPlaced(q) ==
    /\ q.order # 0
    /\ CartStocks(q.user) = {}
    /\ q.todo = {}
    /\ \A s \in Stocks : q.lines[s] # NoPosition => order_positions[q.order][s] = NewOrderPosition(q.lines[s])
PastCancelChecks(q) == q.op = "cancel" /\ q.pc \in {"can_save", "can_read", "can_restock"}

\* C11: when place order stops at any point, the persisted state is either the complete
\* pre-state (no order, cart intact) or the complete post-state (order with all lines,
\* cart empty)
C11_PlaceAllOrNothing ==
    [][\A r \in RequestIds :
          (reqs[r].op = "place" /\ reqs'[r].pc = "idle" /\ resp' = Response("place", 500))
          => NothingPlaced(reqs[r]) \/ AllPlaced(reqs[r])]_vars

\* C12: every CartPosition that place order deletes has an OrderPosition of the order
\* with the same stock and quantity
C12_NoDroppedLines ==
    [][\A r \in RequestIds :
          (reqs[r].pc = "plc_delete" /\ reqs'[r].pc = "idle" /\ resp' = Response("place", 201))
          => \A s \in Stocks :
                HasPosition(reqs[r].user, s) =>
                   /\ HasOrderPosition(reqs[r].order, s)
                   /\ order_positions[reqs[r].order][s].quantity = cart_positions[reqs[r].user][s].quantity]_vars

\* C16: of two interleaved cancel requests for the same order at most one succeeds (when
\* one has passed the checks of destroy the other has not), and once the requests are
\* over each position's quantity was added to its stock exactly once
C16_CancelOnce ==
    /\ [](\A r1, r2 \in RequestIds :
            (r1 # r2 /\ PastCancelChecks(reqs[r1]) /\ PastCancelChecks(reqs[r2]))
            => reqs[r1].order # reqs[r2].order)
    /\ [](Quiet => \A s \in Stocks, o \in OrderIds :
            (orders[o].status = "cancelled" /\ \A x \in OrderIds \ {o} : orders[x] = NoOrder)
            => stockQuantity[s] + InCarts(s) = InitQuantity[s])

\* C19: no order with status cancelled has a position that is confirmed or delivered
C19_NoCancelledAndMoved ==
    \A o \in OrderIds : orders[o].status = "cancelled" => ~AnyMoved(order_positions[o])

\* ---------------------------------------------------------------------------------
\* confirming and delivering order positions

\* C21: a confirm/deliver request sets each flag it asks true for and leaves the other as
\* it was; a request that asks false for a flag that is already true does not succeed;
\* a rejected request (the mixed one included) changes no flag of any position
C21_ConfirmFlags ==
    [][resp'.op = "confirm" =>
          IF Rejected(resp')
          THEN UNCHANGED order_positions
          ELSE \A u \in SupplierUsers, o \in OrderIds, s \in Stocks, cf \in FlagValues, dl \in FlagValues :
                  OrderPositionUpdate(u, o, s, cf, dl) =>
                     /\ ~(cf = "false" /\ order_positions[o][s].confirmed)
                     /\ ~(dl = "false" /\ order_positions[o][s].delivered)
                     /\ order_positions'[o][s].confirmed = (order_positions[o][s].confirmed \/ cf = "true")
                     /\ order_positions'[o][s].delivered = (order_positions[o][s].delivered \/ dl = "true")]_vars

\* a confirm/deliver request was rejected while a position is delivered and not confirmed
C21_Witness ==
    /\ resp = Response("confirm", 400)
    /\ \E o \in OrderIds, s \in Stocks :
          /\ orders[o].status = "saved"
          /\ order_positions[o][s].delivered
          /\ ~order_positions[o][s].confirmed

\* C22: a confirm/deliver request changes nothing but the confirmed and delivered flags of
\* one position: stocks, orders, carts, the other positions and the position's quantity
\* and price stay as they were
C22_ConfirmFrame ==
    [][resp'.op = "confirm" =>
          /\ UNCHANGED <<stockQuantity, stockPrice, order_status, cart_positions, orders,
                         chain_store_purchaser>>
          /\ \E o \in OrderIds, s \in Stocks :
                /\ \A o2 \in OrderIds, s2 \in Stocks :
                      <<o2, s2>> # <<o, s>> => order_positions'[o2][s2] = order_positions[o2][s2]
                /\ order_positions'[o][s].quantity = order_positions[o][s].quantity
                /\ order_positions'[o][s].price = order_positions[o][s].price]_vars

\* a confirm/deliver request succeeded on one position of an order with two positions
C22_Witness ==
    /\ resp = Response("confirm", 200)
    /\ \E o \in OrderIds :
          /\ order_positions[o]["s1"].confirmed
          /\ HasOrderPosition(o, "s2")
          /\ ~order_positions[o]["s2"].confirmed
          /\ ~order_positions[o]["s2"].delivered

\* C23: the quantity and price of an OrderPosition never change once it exists: not by
\* amend, cancel, confirm / deliver, the admin form, nor by a later change of the price or
\* quantity of its stock
C23_PositionFrozen ==
    [][\A o \in OrderIds, s \in Stocks :
          HasOrderPosition(o, s) =>
             /\ order_positions'[o][s].quantity = order_positions[o][s].quantity
             /\ order_positions'[o][s].price = order_positions[o][s].price]_vars

\* the supplier changed the price of a stock that a confirmed order position snapshots
C23_Witness ==
    /\ resp = Response("price", 200)
    /\ \E o \in OrderIds, s \in Stocks :
          /\ HasOrderPosition(o, s)
          /\ order_positions[o][s].confirmed
          /\ order_positions[o][s].price # stockPrice[s]
          /\ stockQuantity[s] # InitQuantity[s] - order_positions[o][s].quantity

\* ---------------------------------------------------------------------------------
\* chain stores, amend order and the derived fields of an order

\* C24: the chain store of every order belongs to the purchaser of the order; an amend
\* request changes no field of the order but the chain store (and nothing else in the
\* database); no request moves a chain store that an order references to another purchaser
C24_ChainStoreOwned ==
    /\ [](\A o \in OrderIds :
            orders[o] # NoOrder => ChainStorePurchaser(orders[o].chain_store) = orders[o].purchaser)
    /\ [][resp'.op = "amend" =>
            /\ \A o \in OrderIds : orders'[o].purchaser = orders[o].purchaser
                                   /\ orders'[o].status = orders[o].status
            /\ UNCHANGED <<order_positions, stockQuantity, stockPrice, cart_positions,
                           chain_store_purchaser>>]_vars
    /\ [][\A c \in ChainStores :
            (\E o \in OrderIds : orders[o] # NoOrder /\ orders[o].chain_store = c)
            => chain_store_purchaser'[c] = chain_store_purchaser[c]]_vars

\* an amend request moved an order to another chain store of its purchaser
C24_Witness ==
    /\ resp = Response("amend", 200)
    /\ \E o \in OrderIds : orders[o].purchaser = "alice" /\ orders[o].chain_store = "c3"

\* C25: an amend request does not succeed on an order with a confirmed or delivered
\* position, and a rejected amend request leaves the order as it was
C25_AmendRejected ==
    [][resp'.op = "amend" =>
          IF Rejected(resp')
          THEN UNCHANGED <<orders, order_positions, stockQuantity>>
          ELSE \A u \in Purchasers, o \in OrderIds, body \in AmendBodies :
                  AmendOrder(u, o, body) => ~AnyMoved(order_positions[o])]_vars

\* an amend request was rejected on a saved order that has a confirmed or delivered position
C25_Witness ==
    /\ resp = Response("amend", 400)
    /\ \E o \in OrderIds : orders[o].status = "saved" /\ AnyMoved(order_positions[o])

RECURSIVE SumLineTotals(_, _)
\* sum of quantity * price of the rows f[x], x in S
SumLineTotals(f, S) ==
    IF S = {} THEN 0
    ELSE LET x == CHOOSE y \in S : TRUE
         IN  f[x].quantity * f[x].price + SumLineTotals(f, S \ {x})

\* C26: the total_amount of an order whose lines are of one supplier is the sum of
\* quantity * price of its lines; with lines of two or more suppliers it is that sum times
\* the surcharge factor, applied once whatever the number of suppliers (amounts in
\* hundredths, the factor 1.1 as 110)
C26_Surcharge ==
    (resp.op = "retrieve" /\ resp.status = 200) =>
       LET positions == order_positions[resp.order]
           sum == SumLineTotals(positions, DOMAIN positions)
           suppliers == {StockSupplier(s) : s \in Rows(positions)}
       IN  resp.data.total_amount =
              IF Cardinality(suppliers) >= 2 THEN COMBINED_ORDER_MULTIPLIER * sum ELSE 100 * sum

\* a GET returned an order with lines of three suppliers and line totals 1, 1, 1: 3.30
C26_Witness ==
    /\ resp.op = "retrieve" /\ resp.status = 200
    /\ Cardinality({StockSupplier(s) : s \in Rows(order_positions[resp.order])}) = 3
    /\ SumLineTotals(order_positions[resp.order], AmountStocks) = 3
    /\ resp.data.total_amount = 330

\* C27: the order a GET returns is confirmed exactly when all its positions are
\* confirmed, delivered exactly when all are delivered, and its total_quantity is the sum
\* of the quantities of its positions, as they are when the request is served
C27_DerivedState ==
    (resp.op = "retrieve" /\ resp.status = 200) =>
       LET positions == order_positions[resp.order]
       IN  /\ resp.data.confirmed = (\A s \in Stocks : HasOrderPosition(resp.order, s) => positions[s].confirmed)
           /\ resp.data.delivered = (\A s \in Stocks : HasOrderPosition(resp.order, s) => positions[s].delivered)
           /\ resp.data.total_quantity = SumQuantity(positions, Stocks)

\* a GET returned an order of two positions, one of them confirmed and both delivered
C27_Witness ==
    /\ resp.op = "retrieve" /\ resp.status = 200
    /\ ~resp.data.confirmed
    /\ resp.data.delivered
    /\ resp.data.total_quantity = 3
    /\ \E s \in Stocks : order_positions[resp.order][s].confirmed

\* ---------------------------------------------------------------------------------
\* who may act on what

\* C28: an update line, remove line or clear cart request succeeds only on the requester's
\* own cart, an add line request only for a purchaser; a rejected request changes no
\* CartPosition and no Stock.quantity
C28_CartIsolation ==
    [][resp'.op \in {"add", "update", "remove", "clear"} =>
          IF Rejected(resp')
          THEN UNCHANGED <<cart_positions, stockQuantity>>
          ELSE /\ \A u \in Users, p \in Purchasers, s \in Stocks :
                     (u # p /\ resp'.op \in {"update", "remove"}) =>
                        /\ ~RemoveLine(u, p, s)
                        /\ \A b \in UpdateBodies : ~UpdateLine(u, p, s, b.quantity, b.otherFields)
               /\ \A u \in Users, p \in Purchasers :
                     (u # p /\ resp'.op = "clear") => ~ClearCart(u, p)
               /\ \A u \in SupplierUsers, s \in Stocks, q \in RequestQuantities :
                     resp'.op = "add" => ~AddLine(u, s, q)]_vars

\* a purchaser's request to clear the other purchaser's cart was not found while both
\* carts hold a line
C28_Witness ==
    /\ resp = Response("clear", 404)
    /\ \A p \in Purchasers : \E s \in Stocks : HasPosition(p, s)

\* C29: a confirm/deliver request succeeds only for the supplier that owns the stock of
\* the position; any other request is rejected and changes no flag
C29_ConfirmOwner ==
    [][resp'.op = "confirm" =>
          IF Rejected(resp')
          THEN UNCHANGED order_positions
          ELSE \A u \in Users, o \in OrderIds, s \in Stocks :
                  StockSupplier(s) # u =>
                     \A cf \in FlagValues, dl \in FlagValues : ~OrderPositionUpdate(u, o, s, cf, dl)]_vars

\* a supplier's confirm/deliver request was not found while every position of the order exists
C29_Witness ==
    /\ resp = Response("confirm", 404)
    /\ \E o \in OrderIds :
          orders[o].status = "saved" /\ \A s \in Stocks : HasOrderPosition(o, s)

\* C30: a cancel or amend request succeeds only for the purchaser of the order; any other
\* request is rejected and changes no order status, chain store or stock quantity
C30_OrderOwner ==
    [][resp'.op \in {"cancel", "amend"} =>
          IF Rejected(resp')
          THEN UNCHANGED <<orders, stockQuantity>>
          ELSE \A u \in Users, o \in OrderIds :
                  orders[o].purchaser # u =>
                     /\ ~CancelOrder(u, o)
                     /\ \A body \in AmendBodies : ~AmendOrder(u, o, body)]_vars

\* a cancel request for the only order, which is saved, was not found
C30_Witness ==
    /\ resp = Response("cancel", 404)
    /\ \A o \in OrderIds : orders[o].status = "saved"

\* ---------------------------------------------------------------------------------
\* superusers and the REST interface

\* C31: a request of an admin to update or remove a line, clear a cart, cancel or amend an
\* order, or confirm / deliver an order position that exists is not refused for lack of
\* permission (no 403, no 404)
C31_AdminAuthorized ==
    ("user" \in DOMAIN resp /\ resp.user \in ApiSuperusers /\ resp.found)
    => resp.status \notin {403, 404}

\* ---------------------------------------------------------------------------------
\* reading

\* the orders the claim lets the user see
OrdersInScope(u) ==
    IF u \in ApiSuperusers THEN {o \in OrderIds : orders[o] # NoOrder}
    ELSE IF u \in Purchasers THEN {o \in OrderIds : orders[o].purchaser = u}
    ELSE {o \in OrderIds : \E s \in Stocks : HasOrderPosition(o, s) /\ StockSupplier(s) = u}

C33_ListNeverFails ==
    resp.op = "list" =>
       IF resp.user = Anonymous THEN Rejected(resp) ELSE resp.status = 200

\* ---------------------------------------------------------------------------------
\* notifications

\* C34: a place order or confirm / deliver request whose notification fails still
\* reports success
C34_NotificationSwallowed ==
    ("gateway" \in DOMAIN resp /\ resp.gateway # "delivered") => resp.status \in {200, 201}

\* ---------------------------------------------------------------------------------
\* purchaser registration

\* C35: when no request is in flight, also after a registration that failed half way,
\* the purchasers are exactly the owners of the shopping carts (a ShoppingCart row has
\* one purchaser and a purchaser at most one ShoppingCart row by the one to one key)
C35_OneCartEach ==
    Quiet => purchaser_rows = shopping_carts

\* ---------------------------------------------------------------------------------
\* catalog import

\* C36: after an import of a supplier every stock of the supplier that existed before is
\* still there, with quantity 0 when its key is not in the document and with the
\* document's quantity and price when it is; the stocks of other suppliers, the cart
\* positions and the order positions are as before
C36_Import ==
    [][resp'.op = "import" =>
          /\ \A s \in StockRows :
                /\ s \in DOMAIN stockQuantity'
                /\ StockSupplier(s) # resp'.user =>
                      (stockQuantity'[s] = stockQuantity[s] /\ stockPrice'[s] = stockPrice[s])
                /\ (StockSupplier(s) = resp'.user /\ s \notin DOMAIN resp'.doc) =>
                      stockQuantity'[s] = 0
          /\ \A s \in DOMAIN resp'.doc :
                /\ stockQuantity'[s] = resp'.doc[s].quantity
                /\ stockPrice'[s] = resp'.doc[s].price
          /\ UNCHANGED <<cart_positions, order_positions, orders>>]_vars

\* an import left out a stock that a cart line and an order position reference, updated
\* the second stock of the supplier and created a third
C36_Witness ==
    /\ resp.op = "import" /\ resp.user = "sup1" /\ DOMAIN resp.doc = {"s5", "s6"}
    /\ stockQuantity["s1"] = 0 /\ stockQuantity["s5"] = 2 /\ stockQuantity["s6"] = 1
    /\ HasPosition("alice", "s1")
    /\ \E o \in OrderIds : HasOrderPosition(o, "s1")

\* ---------------------------------------------------------------------------------
\* a supplier that stopped taking orders, and the life of a reservation

\* the supplier of stock s does not accept orders
StoppedStock(s) == ~order_status[StockSupplier(s)]

\* C37: DELETE on a supplier only sets its flag to false: stocks, quantities, prices, cart
\* positions, orders and order positions stay; while the flag is false every add line and
\* every increase of a line on a stock of the supplier is rejected, and a decrease, a
\* remove, a clear, a place order and a cancel on what is already reserved succeed
C37_SupplierStopped ==
    [][/\ (resp'.op = "destroy" /\ ~Rejected(resp')) =>
             /\ order_status' = [order_status EXCEPT ![resp'.supplier] = FALSE]
             /\ UNCHANGED <<stockQuantity, stockPrice, cart_positions, orders, order_positions>>
       /\ resp'.op = "add" =>
             \A u \in Purchasers, s \in Stocks, n \in ValidQuantities :
                (StoppedStock(s) /\ AddLine(u, s, IntV(n))) => (Rejected(resp') /\ UNCHANGED db)
       /\ resp'.op = "update" =>
             \A u \in Purchasers, s \in Stocks, n \in ValidQuantities :
                (StoppedStock(s) /\ HasPosition(u, s) /\ UpdateLine(u, u, s, IntV(n), FALSE)) =>
                   IF n > cart_positions[u][s].quantity
                   THEN Rejected(resp') /\ UNCHANGED db
                   ELSE resp'.status = 200 /\ cart_positions'[u][s].quantity = n
       /\ resp'.op = "remove" =>
             \A u \in Purchasers, s \in Stocks :
                (StoppedStock(s) /\ HasPosition(u, s) /\ RemoveLine(u, u, s)) =>
                   (resp'.status = 204 /\ ~HasPosition(u, s)')
       /\ resp'.op = "clear" =>
             \A u \in Purchasers :
                ((\E s \in Stocks : StoppedStock(s) /\ HasPosition(u, s)) /\ ClearCart(u, u)) =>
                   (resp'.status = 200 /\ cart_positions'[u] = EmptyCart)
       /\ resp'.op = "place" =>
             \A u \in Purchasers, c \in ChainStores :
                (/\ \E s \in Stocks : StoppedStock(s) /\ HasPosition(u, s)
                 /\ ChainStorePurchaser(c) = u
                 /\ PlaceOrder(u, c)) =>
                   (resp'.status = 201 /\ cart_positions'[u] = EmptyCart)
       /\ resp'.op = "cancel" =>
             \A u \in Purchasers, o \in OrderIds :
                (/\ \E s \in Stocks : StoppedStock(s) /\ HasOrderPosition(o, s)
                 /\ orders[o].purchaser = u /\ orders[o].status = "saved"
                 /\ ~AnyMoved(order_positions[o])
                 /\ CancelOrder(u, o)) =>
                   (resp'.status = 200 /\ orders'[o].status = "cancelled")]_vars

\* the supplier of s1 was stopped while alice held a line on s1 and bob an order with s1;
\* since then bob's order was cancelled
C37_Witness ==
    /\ StoppedStock("s1")
    /\ HasPosition("alice", "s1")
    /\ \E o \in OrderIds : HasOrderPosition(o, "s1") /\ orders[o].status = "cancelled"
    /\ resp.op = "cancel" /\ resp.status = 200

C39_DuplicateAdd ==
    Quiet => \A s \in Stocks :
                stockQuantity[s] = InitQuantity[s] - cart_positions["alice"][s].quantity

\* ---------------------------------------------------------------------------------
\* place order interleaved with remove line and clear cart

\* C40: when every request has returned, each order has at least one order position
C40_OrderHasPosition ==
    Quiet => \A o \in OrderIds : orders[o] # NoOrder => \E s \in Stocks : HasOrderPosition(o, s)

====
